---- MODULE Spec2Model ----
(***************************************************************************)
(* A model of wordmap's HashMapNZ64 (src/src/map.rs): a hash map keyed by  *)
(* nonzero words, stored in one allocation of (hash, data) slots with      *)
(* ordered linear probing, backward-shift deletion and two-axis growth.    *)
(*                                                                         *)
(* Words.  The program's u64 is modelled by a word of WordBits = 16 bits   *)
(* (two bytes, so that swap_bytes still permutes bytes); all wrapping      *)
(* arithmetic is taken modulo 2^WordBits.  INITIAL_S is placed so that the *)
(* initial table keeps the program's geometry: 64 - INITIAL_S = 4 bits of  *)
(* home offset, i.e. 16 core slots, 8 extra slots, capacity 8.             *)
(*                                                                         *)
(* Memory.  An allocation of n slots is the sequence slots[1..n]; a        *)
(* pointer into it is an index, NULL is 0.  A slot's data is Uninit when   *)
(* the slot owns no value (zeroed memory, or a value that was moved out).  *)
(* An access outside the allocation is undefined behaviour: it is recorded *)
(* in the field ub of the map and the operation stops there.               *)
(***************************************************************************)
EXTENDS Integers, Sequences, FiniteSets, TLC

\* ------------------------------------------------------------------ words

WordBits == 16

Pow2(n) == 2 ^ n

WordMod == Pow2(WordBits)

\* u64::wrapping_mul, computed bytewise so that no intermediate product
\* leaves the checker's integer range.
wrapping_mul(x, y) ==
  ((x % 256) * y + (((x \div 256) * y) % 256) * 256) % WordMod

wrapping_add(x, y) == (x + y) % WordMod

wrapping_sub(x, y) == (x + WordMod - y) % WordMod


\* A byte swap that loses the high byte: x << 8.
swap_bytes_low(x) == (x % 256) * 256

\* u64::swap_bytes on a two-byte word.
swap_bytes(x) == (x % 256) * 256 + (x \div 256)

\* x ^ 2: flips bit 1.
xor2(x) == IF (x \div 2) % 2 = 0 THEN x + 2 ELSE x - 2


\* An inverse that stops after the first Newton step.
invert_one_step(a) ==
  LET x0 == xor2(wrapping_mul(a, 3))
      y0 == wrapping_sub(1, wrapping_mul(a, x0))
  IN  wrapping_mul(x0, wrapping_add(y0, 1))

invert(a) ==
  LET x0 == xor2(wrapping_mul(a, 3))
      y0 == wrapping_sub(1, wrapping_mul(a, x0))
      x1 == wrapping_mul(x0, wrapping_add(y0, 1))
      y1 == wrapping_mul(y0, y0)
      x2 == wrapping_mul(x1, wrapping_add(y1, 1))
      y2 == wrapping_mul(y1, y1)
      x3 == wrapping_mul(x2, wrapping_add(y2, 1))
      y3 == wrapping_mul(y2, y2)
      x4 == wrapping_mul(x3, wrapping_add(y3, 1))
  IN  x4


\* The u64 itself, for invert: eight bytes, the lowest first.
Limbs == 8

\* The sum of x[i] * y[c + 1 - i] for i in 1..c: the column c of the
\* schoolbook product.
RECURSIVE mul_column(_, _, _, _)
mul_column(x, y, c, i) ==
  IF i > c THEN 0 ELSE x[i] * y[c + 1 - i] + mul_column(x, y, c, i + 1)

RECURSIVE mul_carry(_, _, _, _, _)
mul_carry(x, y, c, carry, acc) ==
  IF c > Limbs THEN acc
  ELSE LET s == carry + mul_column(x, y, c, 1)
       IN  mul_carry(x, y, c + 1, s \div 256, Append(acc, s % 256))

\* u64::wrapping_mul on eight bytes.
wrapping_mul_u64(x, y) == mul_carry(x, y, 1, 0, <<>>)

RECURSIVE add_carry(_, _, _, _, _)
add_carry(x, y, c, carry, acc) ==
  IF c > Limbs THEN acc
  ELSE LET s == carry + x[c] + y[c]
       IN  add_carry(x, y, c + 1, s \div 256, Append(acc, s % 256))

\* u64::wrapping_add on eight bytes.
wrapping_add_u64(x, y) == add_carry(x, y, 1, 0, <<>>)

\* The u64 of a number below 256.
u64(n) == [i \in 1..Limbs |-> IF i = 1 THEN n ELSE 0]

\* u64::wrapping_sub on eight bytes: x + !y + 1.
wrapping_sub_u64(x, y) ==
  add_carry(x, [i \in 1..Limbs |-> 255 - y[i]], 1, 1, <<>>)

\* The steps of invert on the u64: <<x0, x1, x2, x3, x4>>.
invert_steps(a) ==
  LET x0 == [wrapping_mul_u64(a, u64(3)) EXCEPT ![1] = xor2(@)]
      y0 == wrapping_sub_u64(u64(1), wrapping_mul_u64(a, x0))
      x1 == wrapping_mul_u64(x0, wrapping_add_u64(y0, u64(1)))
      y1 == wrapping_mul_u64(y0, y0)
      x2 == wrapping_mul_u64(x1, wrapping_add_u64(y1, u64(1)))
      y2 == wrapping_mul_u64(y1, y1)
      x3 == wrapping_mul_u64(x2, wrapping_add_u64(y2, u64(1)))
      y3 == wrapping_mul_u64(y2, y2)
      x4 == wrapping_mul_u64(x3, wrapping_add_u64(y3, u64(1)))
  IN  <<x0, x1, x2, x3, x4>>

\* An inverse that stops one multiply step early.
invert_three_steps(a) == invert_steps(a)[4]

\* invert on the u64.
invert_u64(a) == invert_steps(a)[5]

\* h.wrapping_shr(shift as u32) as isize
spot(shift, h) == h \div Pow2(shift % WordBits)

\* hash(Seeds(a, b), x)
hash(m, x) == wrapping_mul(swap_bytes(wrapping_mul(x, m[1])), m[2])

\* ------------------------------------------------------------------ constants

INITIAL_S == WordBits - 4

INITIAL_C == Pow2(WordBits - INITIAL_S - 1)

INITIAL_D == Pow2(WordBits - INITIAL_S)

INITIAL_E == 8

INITIAL_N == INITIAL_D + INITIAL_E

INITIAL_R == INITIAL_C

NULL == 0

Uninit == 0

None == 0

\* ------------------------------------------------------------------ inputs

\* The values a caller stores.
Values == {1, 2}

\* The odd multipliers rng.u64() | 1 is drawn from.  Under a = 3 the keys of
\* KeySeq have the fingerprints 4097, 7, 1, 2, 3, 4, 5, 6, 8, 9: nine of
\* them share the home slot at shift 12 and at shift 11.  Under a = 40503
\* their fingerprints are spread over the core.
SeedAs == {3, 40503}

\* The keys the callers use.
KeySeq == <<272, 1792, 256, 512, 768, 1024, 1280, 1536, 2048, 2304>>

Keys == {KeySeq[i] : i \in DOMAIN KeySeq}

\* The callers of the small workload use the first NumSmall keys.
NumSmall == 5

SmallKeys == {KeySeq[i] : i \in 1..NumSmall}

\* The callers of the bulk workload store a value determined by the key, as
\* the repository's tests do (10 * i, key - 1).
ValueOf(k) == 1 + ((k \div 256) % 2)


\* The inputs of the mixer workload: the odd multipliers 1, 3, ... and
\* -1, -3, ... with the ones above, and keys with a low byte only, a high
\* byte only, and both.
MaxOdd == 7

OddSeeds ==
  SeedAs \cup {2 * i + 1 : i \in 0..MaxOdd}
         \cup {WordMod - 1 - 2 * i : i \in 0..MaxOdd}

MaxHashKey == 40

HashKeys ==
  (1..MaxHashKey) \cup {256 * i : i \in 1..MaxHashKey}
                  \cup {WordMod - i : i \in 1..MaxHashKey}
                  \cup Keys

\* Every nonzero word.
NonZero == 1..(WordMod - 1)


\* The keys of the overfull workload.  Under a = 3 their fingerprints are
\* 4096 * j + 17 for j = 0..15 and 4096 * j + 18 for j = 8, 9: at shift 12
\* every core slot is some key's home, so that the initial table can hold
\* them all.
OverSeq ==
  <<4352, 4368, 4384, 4400, 4416, 4432, 26208, 26224, 26240, 26256, 26272,
    48048, 48064, 48080, 48096, 48112, 26496, 26512>>

OverKeys == {OverSeq[i] : i \in DOMAIN OverSeq}


\* The odd u64 values invert is called with: any odd low byte up to
\* MaxLowByte, and high bytes that are all zero, all ones, or mixed.
MaxLowByte == 31

HighBytes ==
  {<<0, 0, 0, 0, 0, 0, 0>>,
   <<255, 255, 255, 255, 255, 255, 255>>,
   <<121, 185, 127, 74, 124, 21, 158>>,
   <<0, 0, 0, 128, 0, 0, 1>>}

Odd64 ==
  {<<l>> \o h : l \in {n \in 1..MaxLowByte : n % 2 = 1} \cup {129, 255},
                h \in HighBytes}

\* ------------------------------------------------------------------ memory

\* alloc_zeroed of n slots.
alloc_zeroed(n) == [i \in 1..n |-> [hash |-> 0, data |-> Uninit]]

InAlloc(sl, p) == p >= 1 /\ p <= Len(sl)

\* The slot at p holds fingerprint x and owns value v.
put(sl, p, x, v) == [sl EXCEPT ![p] = [hash |-> x, data |-> v]]

\* ------------------------------------------------------------------ the map

\* HashMapNZ64::new_seeded, for the multiplier a = rng.u64() | 1.
new_seeded(a) ==
  [seeds |-> <<a, invert(a)>>,
   slots |-> <<>>,
   table |-> NULL,
   shift |-> INITIAL_S,
   space |-> INITIAL_R,
   check |-> NULL,
   ub    |-> FALSE]

len(m) == Pow2(WordBits - m.shift - 1) - m.space

is_empty(m) == len(m) = 0

\* A walk that also passes the equal fingerprint: `while x >= h`.
RECURSIVE walk_ge(_, _, _)
walk_ge(sl, p, h) ==
  IF ~InAlloc(sl, p) THEN NULL
  ELSE IF sl[p].hash >= h THEN walk_ge(sl, p + 1, h)
  ELSE p

\* The forward walk shared by contains_key, get, get_mut, insert, remove
\* and entry: `while x > h { p = p.add(1); x = (*p).hash }`.  The result is
\* the slot the walk stops at, or NULL when the walk leaves the allocation.
RECURSIVE walk(_, _, _)
walk(sl, p, h) ==
  IF ~InAlloc(sl, p) THEN NULL
  ELSE IF sl[p].hash > h THEN walk(sl, p + 1, h)
  ELSE p

\* The slot a lookup of key stops at (table is not null).
find(m, key) ==
  LET h == hash(m.seeds, key)
  IN  walk(m.slots, m.table - spot(m.shift, h), h)

\* Lookups return UB when the walk leaves the allocation.
UB == -1

contains_key(m, key) ==
  IF m.table = NULL THEN FALSE
  ELSE LET p == find(m, key)
       IN  IF p = NULL THEN UB
           ELSE m.slots[p].hash = hash(m.seeds, key)

\* A get that forgets `if x != h { return None; }`.
get_no_check(m, key) ==
  IF m.table = NULL THEN None
  ELSE LET p == walk(m.slots,
                     m.table - spot(m.shift, hash(m.seeds, key)),
                     hash(m.seeds, key))
       IN  IF p = NULL THEN -1 ELSE m.slots[p].data

get(m, key) ==
  IF m.table = NULL THEN None
  ELSE LET p == find(m, key)
       IN  IF p = NULL THEN UB
           ELSE IF m.slots[p].hash # hash(m.seeds, key) THEN None
           ELSE m.slots[p].data

get_mut(m, key) ==
  IF m.table = NULL THEN None
  ELSE LET p == find(m, key)
       IN  IF p = NULL THEN UB
           ELSE IF m.slots[p].hash # hash(m.seeds, key) THEN None
           ELSE m.slots[p].data

\* The result of a mutating call: the map it leaves, the value it returns,
\* whether it ended in a failed allocation (panic), whether it grew the table.
Result(m, ret, failed, grew) ==
  [m |-> m, ret |-> ret, failed |-> failed, grew |-> grew]

Fault(m) == [m EXCEPT !.ub = TRUE]

\* A table creation that counts the item before it knows that the
\* allocation has succeeded.
init_counts_first(m, key, value, ok) ==
  IF ~ok THEN [m |-> [m EXCEPT !.space = INITIAL_R - 1], ret |-> None,
               failed |-> TRUE, grew |-> FALSE]
  ELSE [m |-> [m EXCEPT !.slots = put(alloc_zeroed(INITIAL_N),
                                      INITIAL_D - spot(INITIAL_S, hash(m.seeds, key)),
                                      hash(m.seeds, key), value),
                        !.table = INITIAL_D,
                        !.shift = INITIAL_S,
                        !.space = INITIAL_R - 1,
                        !.check = INITIAL_N],
        ret |-> None, failed |-> FALSE, grew |-> FALSE]

internal_init_table_and_insert(m, key, value, ok) ==
  IF ~ok THEN Result(m, None, TRUE, FALSE)
  ELSE
    LET a == alloc_zeroed(INITIAL_N)
        t == INITIAL_D
        b == INITIAL_N
        h == hash(m.seeds, key)
        p == t - spot(INITIAL_S, h)
    IN  Result([m EXCEPT !.slots = put(a, p, h, value),
                         !.table = t,
                         !.shift = INITIAL_S,
                         !.space = INITIAL_R - 1,
                         !.check = b],
               None, FALSE, FALSE)


\* A trailing_zeros that looks at the lowest bit only.
trailing_zeros_parity(e) == IF e % 2 = 1 THEN 0 ELSE 1

RECURSIVE trailing_zeros(_)
trailing_zeros(e) ==
  IF e = 0 THEN WordBits
  ELSE IF e % 2 = 1 THEN 0
  ELSE 1 + trailing_zeros(e \div 2)

Max(x, y) == IF x >= y THEN x ELSE y

\* A rehash that writes every pair at its new home, without the cursor.
RECURSIVE rehash_no_max(_, _, _, _, _, _, _)
rehash_no_max(old, new, p, q, old_b, new_t, new_s) ==
  IF p > old_b THEN new
  ELSE
    LET x == old[p].hash
    IN  IF x # 0
        THEN rehash_no_max(old, put(new, new_t - spot(new_s, x), x, old[p].data),
                           p + 1, q, old_b, new_t, new_s)
        ELSE rehash_no_max(old, new, p + 1, q, old_b, new_t, new_s)

\* The rehash loop of internal_grow_table: p walks the old allocation up to
\* old_b, q is the write cursor in the new one.  The result is the new
\* allocation, or <<>> when a write leaves it.

\* A rehash that forgets `q = q.add(1)` after it has written a pair.
RECURSIVE rehash_keep_cursor(_, _, _, _, _, _, _)
rehash_keep_cursor(old, new, p, q, old_b, new_t, new_s) ==
  IF p > old_b THEN new
  ELSE
    LET x == old[p].hash
    IN  IF x # 0
        THEN LET q1 == Max(q, new_t - spot(new_s, x))
             IN  IF ~InAlloc(new, q1) THEN <<>>
                 ELSE rehash_keep_cursor(old, put(new, q1, x, old[p].data),
                                         p + 1, q1, old_b, new_t, new_s)
        ELSE rehash_keep_cursor(old, new, p + 1, q, old_b, new_t, new_s)

RECURSIVE rehash(_, _, _, _, _, _, _)
rehash(old, new, p, q, old_b, new_t, new_s) ==
  IF p > old_b THEN new
  ELSE
    LET x == old[p].hash
    IN  IF x # 0
        THEN LET q1 == Max(q, new_t - spot(new_s, x))
             IN  IF ~InAlloc(new, q1) THEN <<>>
                 ELSE rehash(old, put(new, q1, x, old[p].data), p + 1, q1 + 1,
                             old_b, new_t, new_s)
        ELSE rehash(old, new, p + 1, q, old_b, new_t, new_s)

\* A masking that hides the boundary pair and forgets `self.space = old_r + 1`.
mask_boundary_keep_space(m) ==
  IF m.slots[m.check].hash # 0
  THEN [m EXCEPT !.slots[m.check].hash = 0]
  ELSE m

\* No masking at all: the boundary pair stays visible during the allocation.
mask_boundary_none(m) == m

\* `if is_overflow { (*old_b).hash = 0; self.space = old_r + 1 }`: the pair
\* in the boundary slot is hidden while the allocation is attempted; its
\* value stays in the slot.
mask_boundary(m) ==
  IF m.slots[m.check].hash # 0
  THEN [m EXCEPT !.slots[m.check].hash = 0, !.space = m.space + 1]
  ELSE m


\* A growth that doubles the core and the tail whichever trigger fired.
internal_grow_table_both(m, ok) ==
  LET old_t == m.table
      old_s == m.shift
      old_b == m.check
      old_c == Pow2(WordBits - old_s - 1)
      old_d == Pow2(WordBits - old_s)
      new_s == old_s - 1
      new_c == Pow2(WordBits - new_s - 1)
      new_d == Pow2(WordBits - new_s)
      new_n == new_d + 2 * (old_b - old_t)
      new_a == rehash(m.slots, alloc_zeroed(new_n), old_t - (old_d - 1), 1,
                      old_b, new_d, new_s)
  IN  IF ~ok THEN Result(mask_boundary(m), None, TRUE, FALSE)
      ELSE IF new_a = <<>> THEN Result(Fault(m), None, FALSE, TRUE)
      ELSE Result([m EXCEPT !.slots = new_a,
                            !.table = new_d,
                            !.shift = new_s,
                            !.space = m.space + (new_c - old_c),
                            !.check = new_n],
                  None, FALSE, TRUE)


\* A growth that forgets `self.space = new_r`.
internal_grow_table_keep_space(m, ok) ==
  LET old_d == Pow2(WordBits - m.shift)
      old_e == m.check - m.table
      new_s == m.shift - (IF m.space < 0 THEN 1 ELSE 0)
      new_d == Pow2(WordBits - new_s)
      new_n == new_d + (IF m.slots[m.check].hash # 0 THEN 2 ELSE 1) * old_e
      new_a == rehash(m.slots, alloc_zeroed(new_n), m.table - (old_d - 1), 1,
                      m.check, new_d, new_s)
  IN  IF ~ok THEN Result(mask_boundary(m), None, TRUE, FALSE)
      ELSE IF new_a = <<>> THEN Result(Fault(m), None, FALSE, TRUE)
      ELSE Result([m EXCEPT !.slots = new_a,
                            !.table = new_d,
                            !.shift = new_s,
                            !.check = new_n],
                  None, FALSE, TRUE)

\* internal_grow_table; ok tells whether alloc_zeroed returns a table.  On
\* a failure (a failed assertion or a null allocation) the map is the one
\* the unwinding caller sees.
internal_grow_table(m, ok) ==
  LET old_t == m.table
      old_s == m.shift
      old_r == m.space
      old_b == m.check
      old_b_hash == m.slots[old_b].hash
      is_overfull == old_r < 0
      is_overflow == old_b_hash # 0
      masked == mask_boundary(m)
      old_c == Pow2(WordBits - old_s - 1)
      old_d == Pow2(WordBits - old_s)
      old_e == old_b - old_t
      old_u == WordBits - old_s
      old_v == trailing_zeros(old_e)
      new_u == old_u + (IF is_overfull THEN 1 ELSE 0)
      new_v == old_v + (IF is_overflow THEN 1 ELSE 0)
      fits  == new_u <= WordBits - 1 /\ new_v <= WordBits - 2
      new_s == WordBits - new_u
      new_c == Pow2(WordBits - new_s - 1)
      new_d == Pow2(WordBits - new_s)
      new_e == Pow2(new_v)
      new_n == new_d + new_e
      new_r == old_r + (new_c - old_c)
      new_t == new_d
      new_b == new_n
      old_a == old_t - (old_d - 1)
      new_a == rehash(m.slots, alloc_zeroed(new_n), old_a, 1, old_b,
                      new_t, new_s)
  IN  IF ~(fits /\ ok) THEN Result(masked, None, TRUE, FALSE)
      ELSE IF new_a = <<>> THEN Result(Fault(m), None, FALSE, TRUE)
      ELSE Result([m EXCEPT !.slots = new_a,
                            !.table = new_t,
                            !.shift = new_s,
                            !.space = new_r,
                            !.check = new_b],
                  None, FALSE, TRUE)


\* A displacement that carries the fingerprints forward and forgets the
\* `mem::replace` of the values.
RECURSIVE displace_hash_only(_, _, _, _)
displace_hash_only(sl, p, x, v) ==
  IF x = 0 THEN <<[sl EXCEPT ![p].data = v], p>>
  ELSE
    LET p1 == p + 1
    IN  IF ~InAlloc(sl, p1) THEN <<sl, NULL>>
        ELSE displace_hash_only([sl EXCEPT ![p1].hash = x], p1, sl[p1].hash, v)

\* The displacement loop of insert: x is the fingerprint and v the value
\* being carried; the slot at p already holds the carried pair's fingerprint.
\* The result is <<slots, p>> with p the slot that absorbed the last pair,
\* or <<slots, NULL>> when the loop leaves the allocation.
RECURSIVE displace(_, _, _, _)
displace(sl, p, x, v) ==
  IF x = 0 THEN <<[sl EXCEPT ![p].data = v], p>>
  ELSE
    LET v1 == sl[p].data
        s1 == [sl EXCEPT ![p].data = v]
        p1 == p + 1
    IN  IF ~InAlloc(sl, p1) THEN <<s1, NULL>>
        ELSE displace([s1 EXCEPT ![p1].hash = x], p1, sl[p1].hash, v1)

\* A placement that forgets `self.space = r`.
place_keep_space(m, p0, h, value) ==
  LET d == displace([m.slots EXCEPT ![p0].hash = h], p0, m.slots[p0].hash,
                    value)
  IN  IF d[2] = NULL THEN <<[m EXCEPT !.slots = d[1], !.ub = TRUE], NULL>>
      ELSE <<[m EXCEPT !.slots = d[1]], d[2]>>

\* The placement of an absent key: everything insert does before it looks
\* at `r < 0 || p == b`.  The result is <<map, p>>.
place(m, p0, h, value) ==
  LET x == m.slots[p0].hash
      d == displace([m.slots EXCEPT ![p0].hash = h], p0, x, value)
  IN  IF d[2] = NULL THEN <<Fault([m EXCEPT !.slots = d[1]]), NULL>>
      ELSE <<[m EXCEPT !.slots = d[1], !.space = m.space - 1], d[2]>>

\* An insert that grows on `r < 0` only and forgets `|| p == b`: a pair
\* displaced into the boundary slot stays there.
insert_no_boundary_test(m, key, value, ok) ==
  IF m.table = NULL THEN internal_init_table_and_insert(m, key, value, ok)
  ELSE
    LET h == hash(m.seeds, key)
        p == walk(m.slots, m.table - spot(m.shift, h), h)
    IN  IF p = NULL THEN Result([m EXCEPT !.ub = TRUE], None, FALSE, FALSE)
        ELSE IF m.slots[p].hash = h
        THEN Result([m EXCEPT !.slots[p].data = value], m.slots[p].data,
                    FALSE, FALSE)
        ELSE
          LET pl == place(m, p, h, value)
          IN  IF pl[2] = NULL THEN Result(pl[1], None, FALSE, FALSE)
              ELSE IF pl[1].space < 0
              THEN internal_grow_table(pl[1], ok)
              ELSE Result(pl[1], None, FALSE, FALSE)

insert(m, key, value, ok) ==
  IF m.table = NULL THEN internal_init_table_and_insert(m, key, value, ok)
  ELSE
    LET h == hash(m.seeds, key)
        p == find(m, key)
    IN  IF p = NULL THEN Result(Fault(m), None, FALSE, FALSE)
        ELSE IF m.slots[p].hash = h
        THEN Result([m EXCEPT !.slots[p].data = value], m.slots[p].data,
                    FALSE, FALSE)
        ELSE
          LET pl == place(m, p, h, value)
              m1 == pl[1]
          IN  IF pl[2] = NULL THEN Result(m1, None, FALSE, FALSE)
              ELSE IF m1.space < 0 \/ pl[2] = m1.check
              THEN internal_grow_table(m1, ok)
              ELSE Result(m1, None, FALSE, FALSE)

\* A backward shift that stops only at an empty slot: it also moves an
\* element that sits in its home slot.
RECURSIVE shift_back_ignore_home(_, _, _, _)
shift_back_ignore_home(sl, p, t, s) ==
  LET q == p + 1
  IN  IF ~InAlloc(sl, q) THEN <<>>
      ELSE IF sl[q].hash = 0 THEN put(sl, p, 0, Uninit)
      ELSE shift_back_ignore_home(put(sl, p, sl[q].hash, sl[q].data), q, t, s)

\* A backward shift that forgets `(*p).hash = 0` on the slot it ends at.
RECURSIVE shift_back_keep_hash(_, _, _, _)
shift_back_keep_hash(sl, p, t, s) ==
  LET q == p + 1
  IN  IF ~InAlloc(sl, q) THEN <<>>
      ELSE
        LET x == sl[q].hash
        IN  IF p < t - spot(s, x) \/ x = 0
            THEN [sl EXCEPT ![p].data = Uninit]
            ELSE shift_back_keep_hash(put(sl, p, x, sl[q].data), q, t, s)

\* A remove that empties the slot it found and shifts nothing back.
shift_back_no_shift(sl, p, t, s) == put(sl, p, 0, Uninit)


\* A backward shift whose home test is off by one: `p + 1 < home`.
RECURSIVE shift_back_past_home(_, _, _, _)
shift_back_past_home(sl, p, t, s) ==
  LET q == p + 1
  IN  IF ~InAlloc(sl, q) THEN <<>>
      ELSE
        LET x == sl[q].hash
        IN  IF p + 1 < t - spot(s, x) \/ x = 0
            THEN put(sl, p, 0, Uninit)
            ELSE shift_back_past_home(put(sl, p, x, sl[q].data), q, t, s)

\* The backward shift of remove and OccupiedEntry::remove, from the slot p
\* whose value was moved out.  The result is the slots with the final slot
\* emptied, or <<>> when the loop reads past the allocation.
RECURSIVE shift_back(_, _, _, _)
shift_back(sl, p, t, s) ==
  LET q == p + 1
  IN  IF ~InAlloc(sl, q) THEN <<>>
      ELSE
        LET x == sl[q].hash
        IN  IF p < t - spot(s, x) \/ x = 0
            THEN put(sl, p, 0, Uninit)
            ELSE shift_back(put(sl, p, x, sl[q].data), q, t, s)

\* A remove that empties the slot of the key and shifts nothing back: the
\* slot stays as a gap in its run.
remove_leaves_gap(m, key) ==
  IF m.table = NULL THEN [m |-> m, ret |-> None, failed |-> FALSE, grew |-> FALSE]
  ELSE
    LET h == hash(m.seeds, key)
        p == walk(m.slots, m.table - spot(m.shift, h), h)
    IN  IF p = NULL
        THEN [m |-> [m EXCEPT !.ub = TRUE], ret |-> None, failed |-> FALSE,
              grew |-> FALSE]
        ELSE IF m.slots[p].hash # h
        THEN [m |-> m, ret |-> None, failed |-> FALSE, grew |-> FALSE]
        ELSE [m |-> [m EXCEPT !.slots[p] = [hash |-> 0, data |-> Uninit],
                              !.space = m.space + 1],
              ret |-> m.slots[p].data, failed |-> FALSE, grew |-> FALSE]

remove(m, key) ==
  IF m.table = NULL THEN Result(m, None, FALSE, FALSE)
  ELSE
    LET h == hash(m.seeds, key)
        p == find(m, key)
    IN  IF p = NULL THEN Result(Fault(m), None, FALSE, FALSE)
        ELSE IF m.slots[p].hash # h THEN Result(m, None, FALSE, FALSE)
        ELSE
          LET v  == m.slots[p].data
              sl == shift_back(m.slots, p, m.table, m.shift)
          IN  IF sl = <<>> THEN Result(Fault(m), v, FALSE, FALSE)
              ELSE Result([m EXCEPT !.slots = sl, !.space = m.space + 1],
                          v, FALSE, FALSE)



\* An entry that is Occupied whenever the walk stops at a slot that is not
\* empty: it forgets `x == h`.
entry_stop_is_occupied(m, key) ==
  IF m.table = NULL
  THEN [kind |-> "Vacant", map |-> m, key |-> key, ptr |-> NULL]
  ELSE LET p == walk(m.slots, m.table - spot(m.shift, hash(m.seeds, key)),
                     hash(m.seeds, key))
       IN  IF p = NULL
           THEN [kind |-> "UB", map |-> [m EXCEPT !.ub = TRUE], key |-> key, ptr |-> NULL]
           ELSE IF m.slots[p].hash # 0
           THEN [kind |-> "Occupied", map |-> m, key |-> key, ptr |-> p]
           ELSE [kind |-> "Vacant", map |-> m, key |-> key, ptr |-> NULL]

\* entry: the Entry it returns, with the map it borrows, the key a
\* VacantEntry keeps and the slot an OccupiedEntry keeps.
entry(m, key) ==
  IF m.table = NULL
  THEN [kind |-> "Vacant", map |-> m, key |-> key, ptr |-> NULL]
  ELSE LET p == find(m, key)
       IN  IF p = NULL
           THEN [kind |-> "UB", map |-> Fault(m), key |-> key, ptr |-> NULL]
           ELSE IF m.slots[p].hash = hash(m.seeds, key)
           THEN [kind |-> "Occupied", map |-> m, key |-> key, ptr |-> p]
           ELSE [kind |-> "Vacant", map |-> m, key |-> key, ptr |-> NULL]


\* OccupiedEntry::get, get_mut and into_mut: the value of the slot the entry
\* keeps.
OccupiedEntry_get(e) == e.map.slots[e.ptr].data

OccupiedEntry_get_mut(e) == e.map.slots[e.ptr].data

OccupiedEntry_into_mut(e) == e.map.slots[e.ptr].data

\* OccupiedEntry::insert: mem::replace on the value of the slot.
OccupiedEntry_insert(e, value) ==
  Result([e.map EXCEPT !.slots[e.ptr].data = value],
         e.map.slots[e.ptr].data, FALSE, FALSE)


\* An OccupiedEntry::remove that forgets `o.space += 1`.
OccupiedEntry_remove_keep_space(e) ==
  LET sl == shift_back(e.map.slots, e.ptr, e.map.table, e.map.shift)
  IN  IF sl = <<>>
      THEN [m |-> [e.map EXCEPT !.ub = TRUE], ret |-> e.map.slots[e.ptr].data,
            failed |-> FALSE, grew |-> FALSE]
      ELSE [m |-> [e.map EXCEPT !.slots = sl], ret |-> e.map.slots[e.ptr].data,
            failed |-> FALSE, grew |-> FALSE]

\* OccupiedEntry::remove: the backward shift from the slot the entry keeps.
OccupiedEntry_remove(e) ==
  LET o  == e.map
      v  == o.slots[e.ptr].data
      sl == shift_back(o.slots, e.ptr, o.table, o.shift)
  IN  IF sl = <<>> THEN Result(Fault(o), v, FALSE, FALSE)
      ELSE Result([o EXCEPT !.slots = sl, !.space = o.space + 1],
                  v, FALSE, FALSE)

\* VacantEntry::insert: insert(key, value), then get_mut(key).unwrap().  The
\* value returned is the slot of the reference; a failed allocation unwinds
\* before get_mut, and an unwrap of None panics.
VacantEntry_insert(e, value, ok) ==
  LET r == insert(e.map, e.key, value, ok)
  IN  IF r.failed THEN Result(r.m, NULL, TRUE, r.grew)
      ELSE IF r.m.ub THEN Result(r.m, NULL, FALSE, r.grew)
      ELSE IF get_mut(r.m, e.key) \in {None, UB}
      THEN Result(r.m, NULL, TRUE, r.grew)
      ELSE Result(r.m, find(r.m, e.key), FALSE, r.grew)

\* The cursor walk shared by the iterators and by clear's drop path: from
\* the slot before p downwards, the k nearest slots with a nonzero
\* fingerprint, nearest first.  The result is <<UB>> when the walk leaves the
\* allocation before it has found k of them.
RECURSIVE walk_back(_, _, _, _)
walk_back(sl, p, k, acc) ==
  IF k = 0 THEN acc
  ELSE IF ~InAlloc(sl, p - 1) THEN <<UB>>
  ELSE IF sl[p - 1].hash = 0 THEN walk_back(sl, p - 1, k, acc)
  ELSE walk_back(sl, p - 1, k - 1, Append(acc, p - 1))


\* An iterator that starts its cursor at table instead of check.
iter_from_table(m) == walk_back(m.slots, m.table, len(m), <<>>)

\* The slots iter(), iter_mut(), keys() and values() yield, in order.
iter(m) == walk_back(m.slots, m.check, len(m), <<>>)


\* A clear that zeroes the fingerprints and forgets `self.space = c`.
clear_keep_space(m, needs_drop) ==
  IF m.table = NULL THEN m
  ELSE [m EXCEPT !.slots = [i \in 1..Len(m.slots) |->
                              [hash |-> 0, data |-> Uninit]]]


\* The item Iter::next yields at slot p: the key recovered from the
\* fingerprint with hash(self.rev, x), and the value of the slot.
item(m, p) == <<hash(m.seeds, m.slots[p].hash), m.slots[p].data>>


\* A clear that zeroes the fingerprints of the core and stops at table.
clear_core_only(m, needs_drop) ==
  IF m.table = NULL THEN m
  ELSE IF len(m) = 0 THEN m
  ELSE [m EXCEPT
          !.slots = [i \in 1..Len(m.slots) |->
                       IF i <= m.table THEN [hash |-> 0, data |-> Uninit]
                       ELSE m.slots[i]],
          !.space = Pow2(WordBits - m.shift - 1)]


\* A clear that releases the table as reset does.
clear_frees_table(m, needs_drop) ==
  IF m.table = NULL THEN m
  ELSE [m EXCEPT !.slots = <<>>,
                 !.table = NULL,
                 !.shift = INITIAL_S,
                 !.space = INITIAL_R,
                 !.check = NULL]

\* clear.  With needs_drop the k = len() nearest occupied slots below the
\* boundary are emptied one by one and their values dropped; without it the
\* fingerprints of the whole allocation are zeroed.
clear(m, needs_drop) ==
  IF m.table = NULL THEN m
  ELSE IF len(m) = 0 THEN m
  ELSE
    LET c == Pow2(WordBits - m.shift - 1)
    IN  IF needs_drop
        THEN LET w == walk_back(m.slots, m.check, len(m), <<>>)
                 visited == {w[i] : i \in DOMAIN w}
             IN  IF w = <<UB>> THEN Fault(m)
                 ELSE [m EXCEPT
                         !.slots = [i \in 1..Len(m.slots) |->
                                      IF i \in visited
                                      THEN [hash |-> 0, data |-> Uninit]
                                      ELSE m.slots[i]],
                         !.space = m.space + Len(w)]
        ELSE [m EXCEPT
                !.slots = [i \in 1..Len(m.slots) |->
                             IF m.slots[i].hash # 0
                             THEN [hash |-> 0, data |-> Uninit]
                             ELSE m.slots[i]],
                !.space = c]



\* A drop path that updates `self.space` once, after the loop: a panic in a
\* drop leaves the old space.
clear_panic_space_at_end(m, j) ==
  LET w == walk_back(m.slots, m.check, j, <<>>)
  IN  IF w = <<UB>> THEN [m EXCEPT !.ub = TRUE]
      ELSE [m EXCEPT
              !.slots = [i \in 1..Len(m.slots) |->
                           IF i \in {w[n] : n \in DOMAIN w}
                           THEN [hash |-> 0, data |-> Uninit]
                           ELSE m.slots[i]]]

\* The drop path of clear when the drop of the j-th value it visits panics
\* (1 <= j <= len()): the loop has emptied j slots and has written
\* `self.space = r` j times; the j-th value is gone with the unwinding.
clear_panic(m, j) ==
  LET w == walk_back(m.slots, m.check, j, <<>>)
  IN  IF w = <<UB>> THEN Fault(m)
      ELSE [m EXCEPT
              !.slots = [i \in 1..Len(m.slots) |->
                           IF i \in {w[n] : n \in DOMAIN w}
                           THEN [hash |-> 0, data |-> Uninit]
                           ELSE m.slots[i]],
              !.space = m.space + j]

\* A reset that forgets `self.shift = INITIAL_S`.
reset_keep_shift(m) ==
  IF m.table = NULL THEN m
  ELSE [m EXCEPT !.slots = <<>>,
                 !.table = NULL,
                 !.space = INITIAL_R,
                 !.check = NULL]


\* A reset that forgets `self.check = ptr::null()`.
reset_keep_check(m) ==
  IF m.table = NULL THEN m
  ELSE [m EXCEPT !.slots = <<>>,
                 !.table = NULL,
                 !.shift = INITIAL_S,
                 !.space = INITIAL_R]

reset(m) ==
  IF m.table = NULL THEN m
  ELSE [m EXCEPT !.slots = <<>>,
                 !.table = NULL,
                 !.shift = INITIAL_S,
                 !.space = INITIAL_R,
                 !.check = NULL]



\* The drop loop of reset: p walks from a to b and the value of every slot
\* with a nonzero fingerprint is dropped.  The result is the slots whose
\* value is dropped, in order.
RECURSIVE reset_drop_loop(_, _, _, _)
reset_drop_loop(sl, p, b, acc) ==
  IF p > b THEN acc
  ELSE IF sl[p].hash # 0 THEN reset_drop_loop(sl, p + 1, b, Append(acc, p))
  ELSE reset_drop_loop(sl, p + 1, b, acc)

\* The values reset drops (T needs drop).
reset_drops(m) ==
  IF m.table = NULL THEN <<>>
  ELSE reset_drop_loop(m.slots, m.table - (Pow2(WordBits - m.shift) - 1),
                       m.check, <<>>)

\* The calls of dealloc reset makes: the first slot a and the number of
\* slots n of the layout it passes.
reset_deallocs(m) ==
  IF m.table = NULL THEN <<>>
  ELSE <<[a |-> m.table - (Pow2(WordBits - m.shift) - 1),
          n |-> Pow2(WordBits - m.shift) + (m.check - m.table)]>>


\* A slot count that takes the capacity 2^(WordBits-1-shift) for the number
\* of slots.
num_slots_is_capacity(m) ==
  IF m.table = NULL THEN 0
  ELSE Pow2(WordBits - m.shift - 1)

internal_num_slots(m) ==
  IF m.table = NULL THEN 0
  ELSE Pow2(WordBits - m.shift) + (m.check - m.table)


\* internal_load, as the fraction <<numerator, denominator>>.
internal_load(m) ==
  LET k == len(m)
      n == internal_num_slots(m)
  IN  IF n = 0 THEN <<0, 1>> ELSE <<k, n>>


\* into_iter: the IntoIter that takes the allocation over from the map.
into_iter(m) ==
  IF m.table = NULL
  THEN [rev |-> m.seeds, len |-> 0, ptr |-> NULL, mem |-> <<NULL, 0>>]
  ELSE
    LET c == Pow2(WordBits - m.shift - 1)
        d == Pow2(WordBits - m.shift)
        e == m.check - m.table
        n == d + e
        k == c - m.space
        a == m.table - (d - 1)
    IN  [rev |-> m.seeds, len |-> k, ptr |-> m.check, mem |-> <<a, n>>]

\* into_values: the IntoValues that takes the allocation over from the map;
\* it keeps no seeds.
into_values(m) ==
  IF m.table = NULL
  THEN [rev |-> <<>>, len |-> 0, ptr |-> NULL, mem |-> <<NULL, 0>>]
  ELSE
    LET c == Pow2(WordBits - m.shift - 1)
        d == Pow2(WordBits - m.shift)
        e == m.check - m.table
        n == d + e
        k == c - m.space
        a == m.table - (d - 1)
    IN  [rev |-> <<>>, len |-> k, ptr |-> m.check, mem |-> <<a, n>>]

\* IntoIter::next on the allocation sl: the iterator it leaves, the item it
\* returns and the slot p whose value it has moved out (NULL for None, UB
\* when the walk leaves the allocation).
IntoIter_next(sl, it) ==
  IF it.len = 0 THEN [it |-> it, ret |-> None, p |-> NULL]
  ELSE
    LET w == walk_back(sl, it.ptr, 1, <<>>)
    IN  IF w = <<UB>> THEN [it |-> it, ret |-> UB, p |-> UB]
        ELSE [it  |-> [it EXCEPT !.len = it.len - 1, !.ptr = w[1]],
              ret |-> <<hash(it.rev, sl[w[1]].hash), sl[w[1]].data>>,
              p   |-> w[1]]

\* IntoValues::next.
IntoValues_next(sl, it) ==
  IF it.len = 0 THEN [it |-> it, ret |-> None, p |-> NULL]
  ELSE
    LET w == walk_back(sl, it.ptr, 1, <<>>)
    IN  IF w = <<UB>> THEN [it |-> it, ret |-> UB, p |-> UB]
        ELSE [it  |-> [it EXCEPT !.ptr = w[1], !.len = it.len - 1],
              ret |-> sl[w[1]].data,
              p   |-> w[1]]

\* A drop of the iterator that releases the allocation and never looks at
\* the values the iterator has not yielded.
into_drop_no_drain(sl, it) ==
  [ub  |-> FALSE,
   it  |-> it,
   log |-> IF it.mem[1] # NULL
           THEN <<<<"dealloc", it.mem[1], it.mem[2]>>>>
           ELSE <<>>]

\* Drop for IntoIter and for IntoValues: `for v in &mut *self { drop(v) }`
\* calls next until it returns None and drops every value, then the
\* allocation is released when mem.0 is not null.  The result is the
\* iterator as the loop leaves it, the sequence of the drops and the
\* dealloc, and whether a next was UB.
into_drop(sl, it) ==
  LET w == walk_back(sl, it.ptr, it.len, <<>>)
  IN  IF w = <<UB>> THEN [ub |-> TRUE, it |-> it, log |-> <<>>]
      ELSE [ub  |-> FALSE,
            it  |-> [it EXCEPT !.len = 0,
                               !.ptr = IF w = <<>> THEN it.ptr ELSE w[Len(w)]],
            log |-> [i \in 1..Len(w) |-> <<"drop", w[i], 0>>]
                    \o (IF it.mem[1] # NULL
                        THEN <<<<"dealloc", it.mem[1], it.mem[2]>>>>
                        ELSE <<>>)]


\* HashSetNZ64 is HashMapNZ64<()>: the value of every entry is the unit.
Unit == 1

HashSetNZ64_len(s) == len(s)

HashSetNZ64_is_empty(s) == is_empty(s)

HashSetNZ64_contains(s, key) == contains_key(s, key)

\* A set insert with the result of std's HashSet: true when the key is new.
HashSetNZ64_insert_is_none(s, key, ok) ==
  [m      |-> insert(s, key, Unit, ok).m,
   ret    |-> insert(s, key, Unit, ok).ret = None,
   failed |-> insert(s, key, Unit, ok).failed,
   grew   |-> insert(s, key, Unit, ok).grew]

\* HashSetNZ64::insert: `self.0.insert(key, ()).is_some()`.
HashSetNZ64_insert(s, key, ok) ==
  LET r == insert(s, key, Unit, ok)
  IN  Result(r.m, r.ret # None, r.failed, r.grew)

\* HashSetNZ64::remove: `self.0.remove(key).is_some()`.
HashSetNZ64_remove(s, key) ==
  LET r == remove(s, key)
  IN  Result(r.m, r.ret # None, r.failed, r.grew)

\* ------------------------------------------------------------------ the state machine

VARIABLES
  seeds,  \* HashMapNZ64.seeds
  slots,  \* the allocation table and check point into
  table,  \* HashMapNZ64.table
  shift,  \* HashMapNZ64.shift
  space,  \* HashMapNZ64.space
  check,  \* HashMapNZ64.check
  ub,     \* an access left the allocation
  ref,    \* the reference key -> value map the callers keep beside the map
  last,   \* the last call: its name, what it returned, what the reference returns
  unwound, \* an insert has unwound from a failed allocation
  into,   \* the consuming iterator into_iter or into_values has made of the map
  allocated \* alloc_zeroed has returned a table to the map

vars == <<seeds, slots, table, shift, space, check, ub, ref, last, unwound, into, allocated>>

Map ==
  [seeds |-> seeds, slots |-> slots, table |-> table, shift |-> shift,
   space |-> space, check |-> check, ub |-> ub]

SetMap(m) ==
  /\ seeds' = m.seeds
  /\ slots' = m.slots
  /\ table' = m.table
  /\ shift' = m.shift
  /\ space' = m.space
  /\ check' = m.check
  /\ ub' = m.ub

Call(op, ret, exp, failed, grew) ==
  [op |-> op, ret |-> ret, exp |-> exp, failed |-> failed, grew |-> grew]

\* The call that left r of the map m was given a table by alloc_zeroed: the
\* first table of internal_init_table_and_insert or the new table of
\* internal_grow_table.
Allocates(m, r) ==
  ~r.failed /\ (r.grew \/ (m.table = NULL /\ r.m.table # NULL))

\* No consuming iterator has been made: the map is still owned by its caller.
NoIter ==
  [kind |-> "none", it |-> <<>>, live |-> FALSE, stored |-> {}, size |-> 0,
   log |-> <<>>]

Init ==
  /\ \E a \in SeedAs :
       LET m == new_seeded(a)
       IN  /\ seeds = m.seeds
           /\ slots = m.slots
           /\ table = m.table
           /\ shift = m.shift
           /\ space = m.space
           /\ check = m.check
           /\ ub = m.ub
  /\ ref = [k \in Keys |-> None]
  /\ last = Call("new", None, None, FALSE, FALSE)
  /\ unwound = FALSE
  /\ into = NoIter
  /\ allocated = FALSE


\* The keys the reference map holds.
RefKeys == {k \in Keys : ref[k] # None}

\* insert(k, v) with the allocator answering every request.
Insert(k, v) ==
  /\ LET r == insert(Map, k, v, TRUE)
     IN  /\ SetMap(r.m)
         /\ last' = Call("insert", r.ret, ref[k], r.failed, r.grew)
         /\ allocated' = (allocated \/ Allocates(Map, r))
  /\ ref' = [ref EXCEPT ![k] = v]
  /\ UNCHANGED <<unwound, into>>

\* The key -> value map a caller reads off the map with get.
Abs(m) == [k \in Keys |-> get(m, k)]

\* insert(k, v) when the allocation it asks for fails: the call unwinds, and
\* the callers that survive it re-read their reference map from the map.
InsertAllocFail(k, v) ==
  /\ LET r == insert(Map, k, v, FALSE)
     IN  /\ r.failed
         /\ SetMap(r.m)
         /\ last' = Call("insert", r.ret, ref[k], r.failed, r.grew)
         /\ ref' = Abs(r.m)
         /\ allocated' = (allocated \/ Allocates(Map, r))
  /\ unwound' = TRUE
  /\ UNCHANGED into

Remove(k) ==
  /\ LET r == remove(Map, k)
     IN  /\ SetMap(r.m)
         /\ last' = Call("remove", r.ret, ref[k], r.failed, r.grew)
  /\ ref' = [ref EXCEPT ![k] = None]
  /\ UNCHANGED <<unwound, into, allocated>>

Get(k) ==
  /\ last' = Call("get", get(Map, k), ref[k], FALSE, FALSE)
  /\ UNCHANGED <<seeds, slots, table, shift, space, check, ub, ref, unwound, into, allocated>>

GetMut(k) ==
  /\ last' = Call("get_mut", get_mut(Map, k), ref[k], FALSE, FALSE)
  /\ UNCHANGED <<seeds, slots, table, shift, space, check, ub, ref, unwound, into, allocated>>

ContainsKey(k) ==
  /\ last' = Call("contains_key", contains_key(Map, k), ref[k] # None,
                  FALSE, FALSE)
  /\ UNCHANGED <<seeds, slots, table, shift, space, check, ub, ref, unwound, into, allocated>>

Clear ==
  /\ \E needs_drop \in BOOLEAN : SetMap(clear(Map, needs_drop))
  /\ last' = Call("clear", None, None, FALSE, FALSE)
  /\ ref' = [k \in Keys |-> None]
  /\ UNCHANGED <<unwound, into, allocated>>

Reset ==
  /\ SetMap(reset(Map))
  /\ last' = Call("reset", None, None, FALSE, FALSE)
  /\ ref' = [k \in Keys |-> None]
  /\ UNCHANGED <<unwound, into, allocated>>

\* The small workload: few keys, any value, every allocation succeeds.
Next ==
  \/ \E k \in SmallKeys, v \in Values : Insert(k, v)
  \/ \E k \in SmallKeys : Remove(k)
  \/ \E k \in SmallKeys : Get(k)
  \/ \E k \in SmallKeys : GetMut(k)
  \/ \E k \in SmallKeys : ContainsKey(k)
  \/ Clear
  \/ Reset

Spec == Init /\ [][Next]_vars

\* The bulk workload: enough keys to fill the initial table and to overflow
\* its tail, every allocation succeeds.  The lookups change no field of the
\* map; in the bulk workloads their results are read off every state.
NextGrow ==
  \/ \E k \in Keys : Insert(k, ValueOf(k))
  \/ \E k \in Keys : Remove(k)
  \/ Clear
  \/ Reset

SpecGrow == Init /\ [][NextGrow]_vars

\* The bulk workload when an allocation may fail and the caller survives it.
NextFail ==
  \/ \E k \in Keys : Insert(k, ValueOf(k))
  \/ \E k \in Keys : InsertAllocFail(k, ValueOf(k))
  \/ \E k \in Keys : Remove(k)
  \/ Clear
  \/ Reset

SpecFail == Init /\ [][NextFail]_vars



\* The mixer workload: maps built by new_seeded with any of the multipliers
\* OddSeeds, and calls of hash with the map's seeds.
InitHash ==
  /\ \E a \in OddSeeds :
       LET m == new_seeded(a)
       IN  /\ seeds = m.seeds
           /\ slots = m.slots
           /\ table = m.table
           /\ shift = m.shift
           /\ space = m.space
           /\ check = m.check
           /\ ub = m.ub
  /\ ref = [k \in Keys |-> None]
  /\ last = Call("new", None, None, FALSE, FALSE)
  /\ unwound = FALSE
  /\ into = NoIter
  /\ allocated = FALSE

Hash(k) ==
  /\ last' = Call("hash", hash(seeds, k), k, FALSE, FALSE)
  /\ UNCHANGED <<seeds, slots, table, shift, space, check, ub, ref, unwound, into, allocated>>

NextHash == \E k \in HashKeys : Hash(k)

SpecHash == InitHash /\ [][NextHash]_vars


\* The overfull workload: a caller that keeps no reference map inserts the
\* keys of OverSeq in order and removes them in the reverse order; an
\* allocation may fail and the caller survives it.
InsertNext ==
  /\ len(Map) < Len(OverSeq)
  /\ LET k == OverSeq[len(Map) + 1]
         r == insert(Map, k, ValueOf(k), TRUE)
     IN  /\ SetMap(r.m)
         /\ last' = Call("insert", r.ret, None, r.failed, r.grew)
         /\ allocated' = (allocated \/ Allocates(Map, r))
  /\ UNCHANGED <<ref, unwound, into>>

InsertNextAllocFail ==
  /\ len(Map) < Len(OverSeq)
  /\ LET k == OverSeq[len(Map) + 1]
         r == insert(Map, k, ValueOf(k), FALSE)
     IN  /\ r.failed
         /\ SetMap(r.m)
         /\ last' = Call("insert", r.ret, None, r.failed, r.grew)
         /\ allocated' = (allocated \/ Allocates(Map, r))
  /\ unwound' = TRUE
  /\ UNCHANGED <<ref, into>>

RemoveLast ==
  /\ len(Map) > 0
  /\ LET r == remove(Map, OverSeq[len(Map)])
     IN  /\ SetMap(r.m)
         /\ last' = Call("remove", r.ret, None, r.failed, r.grew)
  /\ UNCHANGED <<ref, unwound, into, allocated>>

NextOverfull ==
  \/ InsertNext
  \/ InsertNextAllocFail
  \/ RemoveLast

SpecOverfull == Init /\ [][NextOverfull]_vars


\* The inserts of the test foo: the keys 1, 2, ..., NumFoo in order, the key
\* i with the value 10 * i; the test keeps no reference map.
NumFoo == 100

InsertFoo ==
  /\ RefKeys = {}
  /\ len(Map) < NumFoo
  /\ LET i == len(Map) + 1
         r == insert(Map, i, 10 * i, TRUE)
     IN  /\ SetMap(r.m)
         /\ last' = Call("insert", r.ret, None, r.failed, r.grew)
         /\ allocated' = (allocated \/ Allocates(Map, r))
  /\ UNCHANGED <<ref, unwound, into>>

\* The insert-only workload: distinct keys are inserted into a new map,
\* either the keys of Keys in any order or the keys of the test foo.
NextInsert ==
  \/ \E k \in Keys : len(Map) = Cardinality(RefKeys) /\ Insert(k, ValueOf(k))
  \/ InsertFoo

SpecInsert == Init /\ [][NextInsert]_vars

\* The number of times the capacity INITIAL_C doubles until it is at least
\* n.
RECURSIVE CoreDoublings(_)
CoreDoublings(n) ==
  IF n <= INITIAL_C THEN 0 ELSE 1 + CoreDoublings((n + 1) \div 2)


\* into_iter() or into_values() consumes the map: the iterator owns the
\* allocation, and the caller's map is gone.
IntoIter ==
  /\ into.kind = "none"
  /\ \E kind \in {"IntoIter", "IntoValues"} :
       into' = [kind   |-> kind,
                it     |-> IF kind = "IntoIter" THEN into_iter(Map)
                           ELSE into_values(Map),
                live   |-> TRUE,
                stored |-> {i \in DOMAIN slots : slots[i].hash # 0},
                size   |-> Len(slots),
                log    |-> <<>>]
  /\ last' = Call("into_iter", None, None, FALSE, FALSE)
  /\ UNCHANGED <<seeds, slots, table, shift, space, check, ub, ref, unwound,
               allocated>>

\* next() on the consuming iterator; the value it returns is the caller's.
IntoNext ==
  /\ into.live
  /\ LET r == IF into.kind = "IntoIter" THEN IntoIter_next(slots, into.it)
              ELSE IntoValues_next(slots, into.it)
     IN  /\ into' = [into EXCEPT !.it = r.it,
                                 !.log = IF r.p \in {NULL, UB} THEN @
                                         ELSE Append(@, <<"move", r.p, 0>>)]
         /\ ub' = (ub \/ r.p = UB)
         /\ last' = Call("next", r.ret, None, FALSE, FALSE)
  /\ UNCHANGED <<seeds, slots, table, shift, space, check, ref, unwound,
               allocated>>

\* The consuming iterator is dropped.
IntoDrop ==
  /\ into.live
  /\ LET w == into_drop(slots, into.it)
     IN  /\ into' = [into EXCEPT !.live = FALSE, !.it = w.it,
                                 !.log = @ \o w.log]
         /\ ub' = (ub \/ w.ub)
         /\ slots' = IF w.log # <<>> /\ w.log[Len(w.log)][1] = "dealloc"
                     THEN <<>> ELSE slots
  /\ last' = Call("drop", None, None, FALSE, FALSE)
  /\ UNCHANGED <<seeds, table, shift, space, check, ref, unwound, allocated>>

\* The consuming workload: a map is built and taken apart with inserts,
\* removes, clear and reset, then consumed by into_iter() or into_values();
\* the iterator is advanced any number of times and dropped.
NextInto ==
  \/ \E k \in Keys : into.kind = "none" /\ Insert(k, ValueOf(k))
  \/ \E k \in SmallKeys : into.kind = "none" /\ Remove(k)
  \/ into.kind = "none" /\ Reset
  \/ IntoIter
  \/ IntoNext
  \/ IntoDrop

SpecInto == Init /\ [][NextInto]_vars


\* clear() of a map whose values need drop, when the drop of the j-th value
\* panics and the caller survives the unwinding; the caller takes the keys
\* of the values that were visited out of its reference map.
ClearPanic(j) ==
  /\ table # NULL
  /\ j >= 1
  /\ j <= len(Map)
  /\ LET w == walk_back(slots, check, j, <<>>)
         m == clear_panic(Map, j)
         visited == IF w = <<UB>> THEN {}
                    ELSE {hash(seeds, slots[w[n]].hash) : n \in DOMAIN w}
     IN  /\ SetMap(m)
         /\ ref' = [k \in Keys |-> IF k \in visited THEN None ELSE ref[k]]
  /\ last' = Call("clear", None, j, TRUE, FALSE)
  /\ UNCHANGED <<unwound, into, allocated>>

\* The largest number of values a clear visits before a drop panics; a later
\* panic is reached by a second clear of the map the first one left.
MaxPanic == 2

\* The bulk workload with a clear that may panic in a drop.
NextClear ==
  \/ \E k \in Keys : Insert(k, ValueOf(k))
  \/ \E k \in Keys : Remove(k)
  \/ \E j \in 1..MaxPanic : ClearPanic(j)
  \/ Clear
  \/ Reset

SpecClear == Init /\ [][NextClear]_vars


\* The seeding workload: invert is called with the odd values of Odd64.
Invert(a) ==
  /\ last' = Call("invert", invert_u64(a), a, FALSE, FALSE)
  /\ UNCHANGED <<seeds, slots, table, shift, space, check, ub, ref, unwound,
                 into, allocated>>

NextInvert == \E a \in Odd64 : Invert(a)

SpecInvert == InitHash /\ [][NextInvert]_vars


\* The set workload: the map is the HashMapNZ64<()> inside a HashSetNZ64,
\* and the caller's reference map holds the unit for the keys of the set.
SetInsert(k) ==
  /\ LET r == HashSetNZ64_insert(Map, k, TRUE)
     IN  /\ SetMap(r.m)
         /\ last' = Call("set_insert", r.ret, ref[k] # None, r.failed, r.grew)
         /\ allocated' = (allocated \/ Allocates(Map, r))
  /\ ref' = [ref EXCEPT ![k] = Unit]
  /\ UNCHANGED <<unwound, into>>

SetRemove(k) ==
  /\ LET r == HashSetNZ64_remove(Map, k)
     IN  /\ SetMap(r.m)
         /\ last' = Call("set_remove", r.ret, ref[k] # None, r.failed, r.grew)
  /\ ref' = [ref EXCEPT ![k] = None]
  /\ UNCHANGED <<unwound, into, allocated>>

NextSet ==
  \/ \E k \in Keys : SetInsert(k)
  \/ \E k \in Keys : SetRemove(k)
  \/ Clear
  \/ Reset

SpecSet == Init /\ [][NextSet]_vars

\* ------------------------------------------------------------------ observations

\* The slots that hold a fingerprint.
Occupied(sl) == {i \in DOMAIN sl : sl[i].hash # 0}

\* The (fingerprint, value) pairs a table holds.
Pairs(sl) == {<<sl[i].hash, sl[i].data>> : i \in Occupied(sl)}

\* Within a run of occupied slots the fingerprints do not increase with the
\* address, and no fingerprint is stored twice.
SortedRuns(sl) ==
  /\ \A i \in 1..(Len(sl) - 1) :
       (sl[i].hash # 0 /\ sl[i + 1].hash # 0) => sl[i].hash >= sl[i + 1].hash
  /\ \A i, j \in Occupied(sl) : sl[i].hash = sl[j].hash => i = j

\* key is not in the allocated map m.
Absent(m, key) ==
  /\ m.table # NULL
  /\ find(m, key) # NULL
  /\ m.slots[find(m, key)].hash # hash(m.seeds, key)

\* What insert(key, value) has done to m when it reaches `r < 0 || p == b`:
\* <<map, p>>.
Placed(m, key, value) == place(m, find(m, key), hash(m.seeds, key), value)

MustGrow(pl) == pl[1].space < 0 \/ pl[2] = pl[1].check


\* The two triggers of growth as insert(key, ValueOf(key)) leaves them when
\* it reaches `r < 0 || p == b`: <<is_overfull, is_overflow>>.
Trigger(m, key) ==
  IF ~Absent(m, key) THEN <<FALSE, FALSE>>
  ELSE LET old == Placed(m, key, ValueOf(key))[1]
       IN  <<old.space < 0, old.slots[old.check].hash # 0>>


\* The map after the removes of the first h keys of KeySeq, from index i on,
\* that m holds.
RECURSIVE remove_first(_, _, _)
remove_first(m, i, h) ==
  IF h = 0 \/ i > Len(KeySeq) THEN m
  ELSE IF get(m, KeySeq[i]) # None
       THEN remove_first(remove(m, KeySeq[i]).m, i + 1, h - 1)
       ELSE remove_first(m, i + 1, h)

\* The table pointer, the shift, the boundary and the allocation of m1 are
\* those of m0.
SameTable(m0, m1) ==
  /\ m1.table = m0.table
  /\ m1.shift = m0.shift
  /\ m1.check = m0.check
  /\ Len(m1.slots) = Len(m0.slots)


\* table and check bound the one allocation the map owns: it starts at
\* table - (core - 1), ends at check, and has core + tail slots.
OwnsRegion(m) ==
  LET core == Pow2(WordBits - m.shift)
      tail == m.check - m.table
  IN  /\ m.slots # <<>>
      /\ m.table - (core - 1) = 1
      /\ m.check = Len(m.slots)
      /\ tail >= 0
      /\ Len(m.slots) = core + tail


\* The home slot of the fingerprint x in the map m.
Home(m, x) == m.table - spot(m.shift, x)

\* The first slot after p that is empty or holds a fingerprint whose home it
\* is; 0 when the allocation has none.
StopAfter(m, p) ==
  LET S == {q \in (p + 1)..Len(m.slots) :
              m.slots[q].hash = 0 \/ Home(m, m.slots[q].hash) = q}
  IN  IF S = {} THEN 0 ELSE CHOOSE q \in S : \A q2 \in S : q <= q2

\* Every stored fingerprint sits at or after its home, and the slots from
\* its home to its slot hold fingerprints that are not smaller.
ReachableFromHome(m) ==
  \A i \in DOMAIN m.slots :
    m.slots[i].hash # 0 =>
      /\ Home(m, m.slots[i].hash) >= 1
      /\ Home(m, m.slots[i].hash) <= i
      /\ \A j \in Home(m, m.slots[i].hash)..i :
           m.slots[j].hash >= m.slots[i].hash


\* The first slot at or after the home of h whose fingerprint is not greater
\* than h; 0 when the allocation has none.
FirstNotGreater(m, h) ==
  LET S == {p \in Home(m, h)..Len(m.slots) : p >= 1 /\ m.slots[p].hash <= h}
  IN  IF S = {} THEN 0 ELSE CHOOSE p \in S : \A p2 \in S : p <= p2

\* The first empty slot at or after p; 0 when the allocation has none.
FirstEmpty(m, p) ==
  LET S == {q \in p..Len(m.slots) : q >= 1 /\ m.slots[q].hash = 0}
  IN  IF S = {} THEN 0 ELSE CHOOSE q \in S : \A q2 \in S : q <= q2


\* The map insert's placement builds when the pairs of the slots p..b of old
\* are placed one by one, in address order, into the map m.
RECURSIVE place_all(_, _, _, _)
place_all(old, p, b, m) ==
  IF p > b \/ m.ub THEN m
  ELSE IF old[p].hash = 0 THEN place_all(old, p + 1, b, m)
  ELSE LET x  == old[p].hash
           p0 == walk(m.slots, m.table - spot(m.shift, x), x)
       IN  IF p0 = NULL THEN Fault(m)
           ELSE place_all(old, p + 1, b, place(m, p0, x, old[p].data)[1])

\* The same, in the reverse address order.
RECURSIVE place_all_rev(_, _, _, _)
place_all_rev(old, p, b, m) ==
  IF p > b \/ m.ub THEN m
  ELSE IF old[b].hash = 0 THEN place_all_rev(old, p, b - 1, m)
  ELSE LET x  == old[b].hash
           p0 == walk(m.slots, m.table - spot(m.shift, x), x)
       IN  IF p0 = NULL THEN Fault(m)
           ELSE place_all_rev(old, p, b - 1, place(m, p0, x, old[b].data)[1])

\* The empty map with the shift and the slot count of m.
EmptyLike(m) ==
  [m EXCEPT !.slots = alloc_zeroed(Len(m.slots)),
            !.space = Pow2(WordBits - m.shift - 1)]

IsFull(s) == s.hash # 0

\* The pairs of a table in address order.
PairSeq(sl) == SelectSeq(sl, IsFull)


\* The number of low bits in which the u64 p equals 1.
RECURSIVE OneBits(_, _)
OneBits(p, i) ==
  IF i > Limbs THEN 8 * Limbs
  ELSE LET want == IF i = 1 THEN 1 ELSE 0
       IN  IF p[i] = want THEN OneBits(p, i + 1)
           ELSE 8 * (i - 1)
                + (CHOOSE n \in 0..7 :
                     /\ p[i] % Pow2(n) = want % Pow2(n)
                     /\ p[i] % Pow2(n + 1) # want % Pow2(n + 1))

\* The number of low bits in which x is the inverse of a.
CorrectBits(a, x) == OneBits(wrapping_mul_u64(a, x), 1)

Min(x, y) == IF x <= y THEN x ELSE y


\* The slot array that holds the (fingerprint, value) pairs F in a table of
\* the shift and size of m: the pairs are taken by decreasing fingerprint and
\* each is put at max(its home, the slot after the previous one).  The
\* result is <<>> when a pair does not fit.
RECURSIVE Canonical(_, _, _, _)
Canonical(m, F, prev, sl) ==
  IF F = {} THEN sl
  ELSE LET f == CHOOSE f \in F : \A g \in F : g[1] <= f[1]
           q == Max(Home(m, f[1]), prev + 1)
       IN  IF ~InAlloc(sl, q) THEN <<>>
           ELSE Canonical(m, F \ {f}, q, put(sl, q, f[1], f[2]))

\* ------------------------------------------------------------------ claims

\* C1: every insert, remove, get, get_mut and contains_key call returns what
\* the same call returns on the reference map, and after each call len() is
\* the size of the reference map, also across core and tail growth.
C1_ModelEquivalence ==
  /\ last.op \in {"insert", "remove"} => last.ret = last.exp
  /\ \A k \in Keys :
       /\ get(Map, k) = ref[k]
       /\ get_mut(Map, k) = ref[k]
       /\ contains_key(Map, k) = (ref[k] # None)
  /\ len(Map) = Cardinality(RefKeys)
  /\ ~ub

\* A present key is removed from a map whose core and tail have both grown.
C1_Witness ==
  /\ last.op = "remove"
  /\ last.ret # None
  /\ shift < INITIAL_S
  /\ check - table > INITIAL_E
  /\ len(Map) > 0

\* C2: when an insert triggers internal_grow_table and the allocation
\* succeeds, the new table holds exactly the (fingerprint, value) pairs of
\* the old one, the inserted pair and the pair of the boundary slot among
\* them, and get finds each of their keys with its value under the new shift.
C2_GrowthKeepsPairs ==
  \A k \in Keys, v \in Values :
    Absent(Map, k) =>
      LET pl  == Placed(Map, k, v)
          old == pl[1]
      IN  MustGrow(pl) =>
            LET new == internal_grow_table(old, TRUE).m
            IN  /\ ~new.ub
                /\ Pairs(new.slots) = Pairs(old.slots)
                /\ Cardinality(Occupied(new.slots))
                     = Cardinality(Occupied(old.slots))
                /\ <<hash(seeds, k), v>> \in Pairs(new.slots)
                /\ \A i \in Occupied(old.slots), j \in Keys :
                     hash(seeds, j) = old.slots[i].hash
                       => get(new, j) = old.slots[i].data

\* An insert has grown a table that had grown before: ten entries are held,
\* one more than the first growth leaves.
C2_Witness ==
  /\ last.op = "insert"
  /\ last.grew
  /\ len(Map) = 10
  /\ shift = INITIAL_S - 1
  /\ check - table = 2 * INITIAL_E


Leaked(sl) == {i \in DOMAIN sl : sl[i].hash = 0 /\ sl[i].data # Uninit}

\* C5: after a failed allocation the map is valid: the boundary slot is
\* empty, len() counts the occupied slots, the runs are sorted, every later
\* get, insert, remove, clear and iteration stays inside the allocation, and
\* a failing insert makes at most one value unreachable, the one masked in
\* the boundary slot.
C5_ValidAfterFailure ==
  /\ (unwound /\ table # NULL) =>
       /\ ~ub
       /\ slots[check].hash = 0
       /\ len(Map) = Cardinality(Occupied(slots))
       /\ SortedRuns(slots)
       /\ Leaked(slots) \subseteq {check}
       /\ iter(Map) # <<UB>>
       /\ \A needs_drop \in BOOLEAN : ~clear(Map, needs_drop).ub
       /\ \A k \in Keys :
            /\ find(Map, k) # NULL
            /\ ~remove(Map, k).m.ub
            /\ \A v \in Values, ok \in BOOLEAN : ~insert(Map, k, v, ok).m.ub
  /\ \A k \in Keys, v \in Values :
       (Absent(Map, k) /\ insert(Map, k, v, FALSE).failed) =>
         LET old == Placed(Map, k, v)[1]
             f   == insert(Map, k, v, FALSE).m
         IN  /\ \A i \in DOMAIN old.slots :
                  i # check => f.slots[i] = old.slots[i]
             /\ f.slots[check].data = old.slots[check].data
             /\ Cardinality(Occupied(old.slots) \ Occupied(f.slots)) <= 1

\* A growth failed with the boundary slot occupied, and a later call ran on
\* the map that still holds the masked value.
C5_Witness ==
  /\ unwound
  /\ table # NULL
  /\ last.op = "remove"
  /\ last.ret # None
  /\ Leaked(slots) = {check}

\* C6: in every state between two calls the fingerprints of a run of
\* occupied slots do not increase with the address and no fingerprint is
\* stored in two slots.
C6_SortedRunInvariant == table # NULL => SortedRuns(slots)

\* A remove has shifted a run back and left three occupied slots in a row.
C6_Witness ==
  /\ last.op = "remove"
  /\ last.ret # None
  /\ \E i \in 1..(Len(slots) - 2) :
       slots[i].hash # 0 /\ slots[i + 1].hash # 0 /\ slots[i + 2].hash # 0


\* C7: insert(k, v) of a present key returns the old value, makes get(k)
\* return v and changes nothing else (no growth; len(), slot count, shift,
\* space and every other slot as before); insert of an absent key returns
\* None and len() grows by exactly 1.
C7_InsertUpdatesInPlace ==
  \A k \in Keys, v \in Values :
    LET r   == insert(Map, k, v, TRUE)
        old == get(Map, k)
    IN  IF old # None
        THEN /\ r.ret = old
             /\ get(r.m, k) = v
             /\ ~r.grew /\ ~r.failed
             /\ len(r.m) = len(Map)
             /\ Len(r.m.slots) = Len(slots)
             /\ r.m.table = table /\ r.m.check = check
             /\ r.m.shift = shift /\ r.m.space = space
             /\ \A i \in DOMAIN slots :
                  /\ r.m.slots[i].hash = slots[i].hash
                  /\ slots[i].hash # hash(seeds, k)
                       => r.m.slots[i] = slots[i]
        ELSE /\ r.ret = None
             /\ get(r.m, k) = v
             /\ len(r.m) = len(Map) + 1

\* An insert has returned the previous value of its key.
C7_Witness ==
  /\ last.op = "insert"
  /\ last.ret # None
  /\ len(Map) > 1

\* C8: remove(k) of a present key returns its value; afterwards k is not
\* contained, len() is one less, every other key has the value it had, and
\* exactly one slot fewer holds a fingerprint.
C8_RemoveTakesOneEntry ==
  \A k \in Keys :
    get(Map, k) # None =>
      LET r == remove(Map, k)
      IN  /\ r.ret = get(Map, k)
          /\ contains_key(r.m, k) = FALSE
          /\ len(r.m) = len(Map) - 1
          /\ Cardinality(Occupied(r.m.slots)) = Cardinality(Occupied(slots)) - 1
          /\ \A j \in Keys \ {k} : get(r.m, j) = get(Map, j)

\* A remove has returned a value and left other entries in the map.
C8_Witness ==
  /\ last.op = "remove"
  /\ last.ret # None
  /\ len(Map) > 1

\* C9: for a key the map does not hold, also before the first allocation and
\* after clear or reset, get and get_mut return None, contains_key returns
\* false, and remove returns None and leaves the map as it is.
C9_AbsentKey ==
  \A k \in Keys :
    ref[k] = None =>
      /\ get(Map, k) = None
      /\ get_mut(Map, k) = None
      /\ contains_key(Map, k) = FALSE
      /\ remove(Map, k) = Result(Map, None, FALSE, FALSE)

\* A remove of an absent key has returned None on a map that holds entries.
C9_Witness ==
  /\ last.op = "remove"
  /\ last.ret = None
  /\ last.exp = None
  /\ table # NULL
  /\ len(Map) > 0

\* C10: for a key k the map does not hold, insert(k, v) returns None, the
\* remove(k) that follows returns v, and len(), is_empty() and get and
\* contains_key of every key are then what they were before the insert.
C10_InsertThenRemove ==
  LET before   == [j \in Keys |-> get(Map, j)]
      contains == [j \in Keys |-> contains_key(Map, j)]
  IN  \A k \in Keys, v \in Values :
        before[k] = None =>
          LET r1 == insert(Map, k, v, TRUE)
              r2 == remove(r1.m, k)
          IN  /\ r1.ret = None
              /\ r2.ret = v
              /\ len(r2.m) = len(Map)
              /\ is_empty(r2.m) = is_empty(Map)
              /\ \A j \in Keys :
                   /\ get(r2.m, j) = before[j]
                   /\ contains_key(r2.m, j) = contains[j]

\* The only entry of an allocated map has been removed: the map is empty
\* again.
C10_Witness ==
  /\ last.op = "remove"
  /\ last.ret # None
  /\ table # NULL
  /\ len(Map) = 0
  /\ is_empty(Map)

\* C11: in every state between two calls len() = 2^(WordBits-1-shift) - space
\* is the number of slots that hold a nonzero fingerprint (0 when the table
\* is unallocated), it is never negative, and is_empty() holds iff that
\* number is 0.
C11_LenCountsOccupied ==
  /\ len(Map) = Pow2(WordBits - shift - 1) - space
  /\ len(Map) = (IF table = NULL THEN 0 ELSE Cardinality(Occupied(slots)))
  /\ len(Map) >= 0
  /\ is_empty(Map) <=> (Cardinality(Occupied(slots)) = 0)

\* An insert has grown the table and the map counts more entries than the
\* initial capacity.
C11_Witness ==
  /\ last.op = "insert"
  /\ last.grew
  /\ len(Map) > INITIAL_R
  /\ Cardinality(Occupied(slots)) > INITIAL_R

\* C12: iter(), iter_mut(), keys() and values() yield exactly len() items,
\* each stored key once, recovered from its fingerprint and paired with its
\* current value, and nothing else; the cursor never moves below the first
\* slot of the allocation and reads no slot when the table is unallocated.
C12_IterationComplete ==
  LET w == iter(Map)
  IN  /\ w # <<UB>>
      /\ Len(w) = len(Map)
      /\ \A i \in DOMAIN w : w[i] >= 1 /\ w[i] < check
      /\ \A i, j \in DOMAIN w : item(Map, w[i])[1] = item(Map, w[j])[1] => i = j
      /\ {item(Map, w[i]) : i \in DOMAIN w}
           = {<<k, get(Map, k)>> : k \in {j \in Keys : get(Map, j) # None}}
      /\ table = NULL => w = <<>>

\* The iteration of a grown map yields several items, one of them from a
\* slot of the tail.
C12_Witness ==
  /\ shift < INITIAL_S
  /\ len(Map) >= 3
  /\ \E i \in DOMAIN iter(Map) : iter(Map)[i] > table

\* C13: for the seeds (a, invert(a)) of new_seeded with a odd, hash is its
\* own inverse on the nonzero words: hash(seeds, hash(seeds, k)) = k for
\* every nonzero key k, and so for every nonzero fingerprint.
C13_HashIsInvolution ==
  /\ wrapping_mul(seeds[1], seeds[2]) = 1
  /\ last.op = "hash" =>
       /\ hash(seeds, last.ret) = last.exp
       /\ hash(seeds, hash(seeds, last.ret)) = last.ret
  /\ last.op = "new" =>
       \A k \in NonZero : hash(seeds, hash(seeds, k)) = k

\* hash has mixed a key with a high byte under a multiplier other than 1.
C13_Witness ==
  /\ last.op = "hash"
  /\ seeds[1] > 1
  /\ last.exp > 255
  /\ last.ret # last.exp
  /\ hash(seeds, last.ret) = last.exp

\* C14: hash(seeds, k) is not 0 for a nonzero key k and odd constants a and
\* b, so a stored fingerprint is never the empty sentinel.
C14_HashNonZero ==
  /\ last.op = "hash" =>
       /\ last.ret # 0
       /\ \A b \in OddSeeds : hash(<<seeds[1], b>>, last.exp) # 0
  /\ last.op = "new" =>
       \A k \in NonZero : hash(seeds, k) # 0

\* hash has mixed a key whose low byte is 0.
C14_Witness ==
  /\ last.op = "hash"
  /\ last.exp % 256 = 0
  /\ last.ret # 0

\* C15: after clear() len() is 0, every key reports absent, every slot holds
\* the fingerprint 0, and the table pointer, the shift and the slot count
\* are what they were before the call.
C15_ClearKeepsAllocation ==
  \A needs_drop \in BOOLEAN :
    LET c == clear(Map, needs_drop)
    IN  /\ ~c.ub
        /\ len(c) = 0
        /\ is_empty(c)
        /\ \A k \in Keys :
             /\ get(c, k) = None
             /\ contains_key(c, k) = FALSE
        /\ \A i \in DOMAIN c.slots : c.slots[i].hash = 0
        /\ c.table = table
        /\ c.check = check
        /\ c.shift = shift
        /\ Len(c.slots) = Len(slots)

\* clear empties a map whose core and tail have grown and that holds more
\* entries than the initial capacity, some of them in the tail.
C15_Witness ==
  /\ shift < INITIAL_S
  /\ check - table > INITIAL_E
  /\ len(Map) > INITIAL_R
  /\ \E i \in Occupied(slots) : i > table
  /\ len(clear(Map, TRUE)) = 0
  /\ len(clear(Map, FALSE)) = 0

\* C16: after reset() len() is 0 and the slot count is 0: table and check
\* are null, shift and space have their initial values, the map is the map
\* new_seeded builds with the same seeds and the next insert allocates the
\* initial table; the allocation is freed once, with the layout it was
\* allocated with, and the value of every entry is dropped once.
C16_ResetIsNew ==
  LET r == reset(Map)
      d == reset_drops(Map)
      f == reset_deallocs(Map)
  IN  /\ len(r) = 0
      /\ internal_num_slots(r) = 0
      /\ r.table = NULL /\ r.check = NULL
      /\ r.shift = INITIAL_S /\ r.space = INITIAL_R
      /\ r = [new_seeded(seeds[1]) EXCEPT !.ub = ub]
      /\ \A k \in Keys :
           LET i == insert(r, k, 1, TRUE).m
           IN  /\ Len(i.slots) = INITIAL_N
               /\ internal_num_slots(i) = INITIAL_D + INITIAL_E
               /\ i.table = INITIAL_D
      /\ Len(f) = (IF table = NULL THEN 0 ELSE 1)
      /\ \A j \in DOMAIN f : f[j].a = 1 /\ f[j].n = Len(slots)
      /\ reset_deallocs(r) = <<>>
      /\ reset_drops(r) = <<>>
      /\ \A i, j \in DOMAIN d : d[i] = d[j] => i = j
      /\ {d[i] : i \in DOMAIN d} = Occupied(slots)
      /\ Len(d) = len(Map)
      /\ ~unwound => {d[i] : i \in DOMAIN d}
                       = {i \in DOMAIN slots : slots[i].data # Uninit}

\* reset releases a grown table that holds more entries than the initial
\* capacity.
C16_Witness ==
  /\ shift < INITIAL_S
  /\ len(Map) > INITIAL_R
  /\ Len(reset_drops(Map)) = len(Map)
  /\ Len(reset_deallocs(Map)) = 1
  /\ reset(Map).table = NULL

\* C17: with allocations succeeding, right after a growth 2 * len() is less
\* than the slot count, and in every state the load internal_load() is
\* below 1: len() is less than the slot count of an allocated table.
C17_LoadFactorBound ==
  /\ (last.op = "insert" /\ last.grew)
       => 2 * len(Map) < internal_num_slots(Map)
  /\ table # NULL => len(Map) < internal_num_slots(Map)
  /\ internal_load(Map)[1] < internal_load(Map)[2]
  /\ \A k \in Keys :
       LET r == insert(Map, k, ValueOf(k), TRUE)
       IN  /\ len(r.m) < internal_num_slots(r.m)
           /\ r.grew => 2 * len(r.m) < internal_num_slots(r.m)

\* An insert has doubled the core of a full table.
C17_Witness ==
  /\ last.op = "insert"
  /\ last.grew
  /\ shift = INITIAL_S - 1
  /\ len(Map) = INITIAL_R + 1
  /\ internal_num_slots(Map) > 2 * len(Map)

\* C18: a growth doubles the core (shift one less, capacity doubled) iff
\* space is negative after the triggering insert, and doubles the tail iff
\* the boundary slot is occupied after that insert; an axis whose trigger is
\* absent keeps its size, and insert grows the table iff a trigger fired.
C18_GrowthAxes ==
  \A k \in Keys :
    Absent(Map, k) =>
      LET pl  == Placed(Map, k, ValueOf(k))
          old == pl[1]
          is_overfull == old.space < 0
          is_overflow == old.slots[old.check].hash # 0
          r   == insert(Map, k, ValueOf(k), TRUE)
          new == r.m
      IN  /\ (pl[2] = old.check) <=> is_overflow
          /\ r.grew <=> (is_overfull \/ is_overflow)
          /\ new.shift = old.shift - (IF is_overfull THEN 1 ELSE 0)
          /\ Pow2(WordBits - new.shift - 1)
               = (IF is_overfull THEN 2 ELSE 1) * Pow2(WordBits - old.shift - 1)
          /\ new.check - new.table
               = (IF is_overflow THEN 2 ELSE 1) * (old.check - old.table)
          /\ Len(new.slots)
               = Pow2(WordBits - new.shift) + (new.check - new.table)

\* From a full initial table one insert doubles the core only and the next
\* one the tail only, with space >= 0; with another key removed first, the
\* second insert doubles both at once.
C18_Witness ==
  /\ shift = INITIAL_S
  /\ space = 0
  /\ \E k0 \in Keys, k1 \in Keys, k2 \in Keys :
       /\ Trigger(Map, k1) = <<TRUE, FALSE>>
       /\ Trigger(insert(Map, k1, ValueOf(k1), TRUE).m, k2) = <<FALSE, TRUE>>
       /\ LET m0 == insert(remove(Map, k0).m, k1, ValueOf(k1), TRUE).m
          IN  Trigger(m0, k2) = <<TRUE, TRUE>>

C21_SlotCountFrame ==
  /\ \A k \in Keys :
       /\ SameTable(Map, remove(Map, k).m)
       /\ SameTable(Map, entry(Map, k).map)
       /\ LET r == insert(Map, k, ValueOf(k), TRUE)
          IN  /\ internal_num_slots(r.m) >= internal_num_slots(Map)
              /\ (table # NULL /\ ~r.grew) => SameTable(Map, r.m)
              /\ r.m.shift <= shift
  /\ \A needs_drop \in BOOLEAN : SameTable(Map, clear(Map, needs_drop))
  /\ internal_num_slots(reset(Map)) = 0
  /\ len(Map) % 2 = 0 =>
       LET h  == len(Map) \div 2
           m2 == remove_first(Map, 1, h)
       IN  /\ len(m2) = h
           /\ SameTable(Map, m2)
           /\ internal_num_slots(m2) = internal_num_slots(Map)
           /\ 2 * internal_load(m2)[1] * internal_load(Map)[2]
                = internal_load(Map)[1] * internal_load(m2)[2]

\* Half of the ten entries of a table whose core and tail have grown are
\* removed, and the slot count stays.
C21_Witness ==
  /\ len(Map) = Len(KeySeq)
  /\ shift < INITIAL_S
  /\ check - table > INITIAL_E
  /\ len(remove_first(Map, 1, 5)) = 5
  /\ internal_num_slots(remove_first(Map, 1, 5)) = internal_num_slots(Map)

\* C22: entry(k) is Occupied exactly when contains_key(k) is true and
\* Vacant otherwise, and the query writes no field: no allocation, no growth,
\* the same contents, shift and space.  Of the calls on the entry, only the
\* insert through a Vacant one can change the slot count.
C22_EntryIsPureQuery ==
  \A k \in Keys :
    LET e == entry(Map, k)
    IN  /\ e.map = Map
        /\ e.key = k
        /\ (e.kind = "Occupied") <=> (contains_key(Map, k) = TRUE)
        /\ (e.kind = "Vacant") <=> (contains_key(Map, k) = FALSE)
        /\ e.kind = "Occupied" =>
             /\ Map.slots[e.ptr].hash = hash(seeds, k)
             /\ OccupiedEntry_get(e) = get(Map, k)
             /\ OccupiedEntry_get_mut(e) = get_mut(Map, k)
             /\ OccupiedEntry_into_mut(e) = get(Map, k)
             /\ \A v \in Values : SameTable(Map, OccupiedEntry_insert(e, v).m)
             /\ SameTable(Map, OccupiedEntry_remove(e).m)
        /\ e.kind = "Vacant" =>
             LET r == VacantEntry_insert(e, ValueOf(k), TRUE)
             IN  ~SameTable(Map, r.m) => (table = NULL \/ r.grew)

\* A full table of the first size holds some keys and not others: one entry
\* is Occupied, another is Vacant and its insert grows the table.
C22_Witness ==
  /\ table # NULL
  /\ \E k \in Keys : entry(Map, k).kind = "Occupied"
  /\ \E k \in Keys :
       /\ entry(Map, k).kind = "Vacant"
       /\ VacantEntry_insert(entry(Map, k), ValueOf(k), TRUE).grew
       /\ ~SameTable(Map, VacantEntry_insert(entry(Map, k), ValueOf(k), TRUE).m)

\* The slots the log of the consuming iterator names with the event ev.
LogSlots(ev) == {into.log[i][2] : i \in {j \in DOMAIN into.log : into.log[j][1] = ev}}

\* C23: with into_iter() and into_values() every stored value is
\* moved out to the caller or dropped by the iterator exactly once, whether
\* the iterator runs to completion or is dropped after any number of next()
\* calls; the allocation is released exactly once, after all the values, and
\* never when the map had not allocated.
C23_ConsumeExactlyOnce ==
  into.kind # "none" =>
    LET moves    == {j \in DOMAIN into.log : into.log[j][1] \in {"move", "drop"}}
        deallocs == {j \in DOMAIN into.log : into.log[j][1] = "dealloc"}
    IN  /\ ~ub
        /\ \A i, j \in moves : into.log[i][2] = into.log[j][2] => i = j
        /\ \A j \in moves : into.log[j][2] \in into.stored
        /\ into.it.len = Cardinality(into.stored) - Cardinality(moves)
        /\ into.live => deallocs = {} /\ LogSlots("drop") = {}
        /\ ~into.live =>
             /\ LogSlots("move") \cup LogSlots("drop") = into.stored
             /\ Cardinality(deallocs) = (IF table = NULL THEN 0 ELSE 1)
             /\ \A j \in deallocs :
                  /\ j = Len(into.log)
                  /\ into.log[j] = <<"dealloc", 1, into.size>>
                  /\ into.size = internal_num_slots(Map)

\* An iterator over a grown table has been dropped after some next() calls:
\* values were moved out, the rest were dropped, and the allocation was
\* released.
C23_Witness ==
  /\ ~into.live
  /\ into.kind = "IntoIter"
  /\ shift < INITIAL_S
  /\ Cardinality(LogSlots("move")) >= 2
  /\ Cardinality(LogSlots("drop")) >= 2
  /\ into.log[Len(into.log)][1] = "dealloc"

\* C24 as stated: table is null iff the map has never allocated, table
\* is null iff check is null, a null table implies len() = 0, and an
\* allocated table and its boundary bound one allocation of core + tail
\* slots.
C24_NullIffNeverAllocated ==
  /\ (table = NULL) <=> ~allocated
  /\ (table = NULL) <=> (check = NULL)
  /\ table = NULL => len(Map) = 0
  /\ table # NULL => OwnsRegion(Map)

\* C24 (amended): table is null iff the map owns no allocation, which is
\* so before its first allocation and again after every reset; table is null
\* iff check is null, a null table implies len() = 0, and a table that is
\* not null and its boundary bound one allocation of core + tail slots,
\* core = 2^(WordBits-shift), tail = check - table.
C24_NullIffNoAllocation ==
  /\ (table = NULL) <=> (slots = <<>>)
  /\ ~allocated => table = NULL
  /\ (table = NULL) <=> (check = NULL)
  /\ table = NULL => (len(Map) = 0 /\ shift = INITIAL_S /\ space = INITIAL_R)
  /\ table # NULL => OwnsRegion(Map)

\* A map that has allocated was reset: its table is null again.
C24_Witness ==
  /\ allocated
  /\ last.op = "reset"
  /\ table = NULL
  /\ check = NULL

\* C25: every stored fingerprint x sits at or after its home slot
\* table - (x >> shift) and every slot from its home to its slot holds a
\* fingerprint >= x, so the lookup from home reaches it; the backward shift
\* of remove stops exactly at the first successor that is empty or sits at
\* its own home, and moves no element before its home.
C25_ReachableFromHome ==
  /\ ~ub
  /\ table # NULL =>
       /\ ReachableFromHome(Map)
       /\ \A i \in DOMAIN slots :
            slots[i].hash # 0 =>
              walk(slots, Home(Map, slots[i].hash), slots[i].hash) = i
       /\ \A k \in Keys :
            get(Map, k) # None =>
              LET p    == find(Map, k)
                  stop == StopAfter(Map, p)
                  r    == remove(Map, k)
              IN  /\ stop # 0
                  /\ ~r.m.ub
                  /\ r.m.slots =
                       [i \in 1..Len(slots) |->
                          IF i >= p /\ i < stop - 1 THEN slots[i + 1]
                          ELSE IF i = stop - 1
                          THEN [hash |-> 0, data |-> Uninit]
                          ELSE slots[i]]
                  /\ ReachableFromHome(r.m)

\* One key's successor sits in its own home, and its removal moves nothing;
\* another key is followed by a displaced element, and its removal moves
\* that element back, not before its home.
C25_Witness ==
  /\ table # NULL
  /\ \E k \in Keys :
       /\ get(Map, k) # None
       /\ StopAfter(Map, find(Map, k)) = find(Map, k) + 1
       /\ slots[find(Map, k) + 1].hash # 0
  /\ \E k \in Keys :
       /\ get(Map, k) # None
       /\ StopAfter(Map, find(Map, k)) >= find(Map, k) + 2
       /\ remove(Map, k).m.slots[find(Map, k)] = slots[find(Map, k) + 1]

\* C26: an insert of an absent key with fingerprint h writes h and the
\* value at the first slot p at or after home(h) whose fingerprint is not
\* greater than h, and moves each pair of the occupied run from p up to the
\* first empty slot forward by one slot, in order and paired as before; no
\* other slot is written before a growth.
C26_InsertShiftsRun ==
  table # NULL =>
    \A k \in Keys :
      get(Map, k) = None =>
        LET h  == hash(seeds, k)
            p  == FirstNotGreater(Map, h)
            e  == FirstEmpty(Map, p)
            pl == Placed(Map, k, ValueOf(k))
            r  == insert(Map, k, ValueOf(k), TRUE)
            shifted == [i \in 1..Len(slots) |->
                          IF i = p THEN [hash |-> h, data |-> ValueOf(k)]
                          ELSE IF i > p /\ i <= e THEN slots[i - 1]
                          ELSE slots[i]]
        IN  /\ p # 0
            /\ e # 0
            /\ slots[p].hash < h
            /\ pl[2] = e
            /\ pl[1].slots = shifted
            /\ SameTable(Map, pl[1])
            /\ ~r.grew => r.m.slots = shifted

\* An absent key belongs before a run of at least two pairs: its insert
\* moves them forward and grows nothing.
C26_Witness ==
  /\ table # NULL
  /\ \E k \in Keys :
       /\ get(Map, k) = None
       /\ FirstEmpty(Map, FirstNotGreater(Map, hash(seeds, k)))
            >= FirstNotGreater(Map, hash(seeds, k)) + 2
       /\ ~insert(Map, k, ValueOf(k), TRUE).grew

\* C27: the table internal_grow_table builds in one ascending pass
\* with the cursor q = max(q, new home) is slot for slot the table that
\* insert's placement builds when the same pairs are placed one by one into
\* an empty table of the new shift and tail; the cursor visits no slot
\* twice and overwrites no pair, so the pairs keep their address order.
C27_RehashIsPlacement ==
  table # NULL =>
    \A k \in Keys :
      (get(Map, k) = None /\ MustGrow(Placed(Map, k, ValueOf(k)))) =>
        LET old == Placed(Map, k, ValueOf(k))[1]
            g   == internal_grow_table(old, TRUE)
        IN  /\ g.grew /\ ~g.failed /\ ~g.m.ub
            /\ g.m = place_all(old.slots, 1, Len(old.slots), EmptyLike(g.m))
            /\ g.m = place_all_rev(old.slots, 1, Len(old.slots), EmptyLike(g.m))
            /\ PairSeq(g.m.slots) = PairSeq(old.slots)

\* A growth of the core rehashes a table in which the new home of a pair is
\* behind the cursor: the pair is written at the cursor, after its home.
C27_Witness ==
  /\ table # NULL
  /\ \E k \in Keys :
       /\ get(Map, k) = None
       /\ MustGrow(Placed(Map, k, ValueOf(k)))
       /\ LET g == internal_grow_table(Placed(Map, k, ValueOf(k))[1], TRUE).m
          IN  /\ g.shift < shift
              /\ \E i \in DOMAIN g.slots :
                   /\ g.slots[i].hash # 0
                   /\ Home(g, g.slots[i].hash) < i

\* C28: in the drop path of clear, after each item is removed
\* (fingerprint zeroed and space incremented before the drop) the map is
\* valid: len() is the number of nonzero slots and every remaining key is
\* found with its value; a panic in a drop leaves a usable map that holds
\* exactly the items the loop has not visited.
C28_ClearPanicLeavesValidMap ==
  /\ ~ub
  /\ len(Map) = Cardinality(Occupied(slots))
  /\ \A k \in Keys : get(Map, k) = ref[k]
  /\ table # NULL =>
       LET occ  == Occupied(slots)
           rank == [i \in occ |-> Cardinality({i2 \in occ : i2 >= i})]
       IN  \A j \in 1..len(Map) :
             LET m == clear_panic(Map, j)
                 V == {i \in occ : rank[i] <= j}
             IN  /\ ~m.ub
                 /\ SameTable(Map, m)
                 /\ len(m) = len(Map) - j
                 /\ len(m) = Cardinality(Occupied(m.slots))
                 /\ Occupied(m.slots) = occ \ V
                 /\ \A i \in occ :
                      LET x == slots[i].hash
                          p == walk(m.slots, Home(m, x), x)
                      IN  IF i \in V
                          THEN p # NULL /\ m.slots[p].hash # x
                          ELSE p = i /\ m.slots[i] = slots[i]
                 /\ j = len(Map) => m = clear(Map, TRUE)

\* The drop of the second value clear visited has panicked in a map of at
\* least five entries; the entries not visited are still there, one of them
\* after its home.
C28_Witness ==
  /\ last.op = "clear"
  /\ last.failed
  /\ last.exp = 2
  /\ len(Map) >= 3
  /\ \E i \in Occupied(slots) : Home(Map, slots[i].hash) < i

\* C29: for every odd a, invert(a) is the multiplicative inverse of a
\* modulo 2^64 and is odd: the start value 3a XOR 2 is correct in the low 5
\* bits and each of the four multiply steps doubles the number of correct
\* low bits (5, 10, 20, 40, 80), so that all 64 bits are correct.
C29_InvertDoublesCorrectBits ==
  /\ wrapping_mul(seeds[1], seeds[2]) = 1
  /\ seeds[2] % 2 = 1
  /\ last.op = "invert" =>
       LET a == last.exp
           x == invert_steps(a)
       IN  /\ wrapping_mul_u64(a, last.ret) = u64(1)
           /\ last.ret[1] % 2 = 1
           /\ last.ret = x[5]
           /\ \A i \in 1..5 :
                CorrectBits(a, x[i]) >= Min(8 * Limbs, 5 * Pow2(i - 1))
           /\ LET a16 == a[1] + 256 * a[2]
              IN  invert(a16) = last.ret[1] + 256 * last.ret[2]

\* invert was called with a value whose start value is correct in 5 bits
\* only and whose third step is not yet correct in all 64 bits.
C29_Witness ==
  /\ last.op = "invert"
  /\ last.exp[8] # 0
  /\ CorrectBits(last.exp, invert_steps(last.exp)[1]) = 5
  /\ CorrectBits(last.exp, invert_steps(last.exp)[4]) < 8 * Limbs
  /\ wrapping_mul_u64(last.exp, last.ret) = u64(1)

\* C30: a commit through an entry equals the map operation:
\* OccupiedEntry::remove on entry(k) leaves the map remove(k) leaves and
\* returns the value remove(k) returns; VacantEntry::insert(v) on entry(k)
\* leaves the map insert(k, v) leaves, growth included, and returns a
\* reference to the slot that holds k's value.
C30_EntryCommitIsMapOperation ==
  \A k \in Keys :
    LET e == entry(Map, k)
    IN  /\ e.kind \in {"Occupied", "Vacant"}
        /\ e.kind = "Occupied" =>
             /\ OccupiedEntry_remove(e) = remove(Map, k)
             /\ OccupiedEntry_remove(e).ret = get(Map, k)
             /\ get(OccupiedEntry_remove(e).m, k) = None
             /\ \A v \in Values :
                  /\ OccupiedEntry_insert(e, v).m = insert(Map, k, v, TRUE).m
                  /\ OccupiedEntry_insert(e, v).ret = insert(Map, k, v, TRUE).ret
        /\ e.kind = "Vacant" =>
             /\ remove(Map, k) = Result(Map, None, FALSE, FALSE)
             /\ \A ok \in BOOLEAN :
                  LET r == VacantEntry_insert(e, ValueOf(k), ok)
                      i == insert(Map, k, ValueOf(k), ok)
                  IN  /\ r.m = i.m
                      /\ r.grew = i.grew
                      /\ r.failed = i.failed
                      /\ i.ret = None
                      /\ ~r.failed =>
                           /\ r.ret # NULL
                           /\ r.m.slots[r.ret].hash = hash(seeds, k)
                           /\ r.m.slots[r.ret].data = ValueOf(k)

\* One key of the map is removed through its OccupiedEntry and the shift
\* moves its successor back; another key is inserted through its
\* VacantEntry and the table grows.
C30_Witness ==
  /\ table # NULL
  /\ \E k \in Keys :
       /\ entry(Map, k).kind = "Occupied"
       /\ OccupiedEntry_remove(entry(Map, k)).m.slots[entry(Map, k).ptr].hash # 0
  /\ \E k \in Keys :
       /\ entry(Map, k).kind = "Vacant"
       /\ VacantEntry_insert(entry(Map, k), ValueOf(k), TRUE).grew
       /\ VacantEntry_insert(entry(Map, k), ValueOf(k), TRUE).ret # NULL

\* C31: every slot contains_key, get, get_mut, entry, insert and remove
\* read or write lies in the allocation, from the first core slot to the
\* boundary slot: the home slot is a core slot, and the forward walk and
\* the shift loops stop at or before the boundary slot, which is empty in
\* every quiescent state.
C31_AccessesInsideAllocation ==
  /\ ~ub
  /\ table # NULL =>
       /\ OwnsRegion(Map)
       /\ slots[check].hash = 0
       /\ \A k \in Keys :
            LET h  == hash(seeds, k)
                p  == find(Map, k)
                i  == insert(Map, k, ValueOf(k), TRUE)
                f  == insert(Map, k, ValueOf(k), FALSE)
                r  == remove(Map, k)
            IN  /\ Home(Map, h) >= 1
                /\ Home(Map, h) <= table
                /\ p # NULL
                /\ p >= Home(Map, h)
                /\ p <= check
                /\ contains_key(Map, k) = (slots[p].hash = h)
                /\ get(Map, k) # UB
                /\ get_mut(Map, k) # UB
                /\ entry(Map, k).kind # "UB"
                /\ ~i.m.ub
                /\ ~f.m.ub
                /\ ~r.m.ub
                /\ slots[p].hash # h =>
                     LET pl == Placed(Map, k, ValueOf(k))
                     IN  /\ pl[2] # NULL
                         /\ pl[2] >= p
                         /\ pl[2] <= check
                /\ slots[p].hash = h =>
                     /\ StopAfter(Map, p) # 0
                     /\ StopAfter(Map, p) <= check

\* The walk for one key ends at the boundary slot itself, and the insert of
\* another key displaces a pair into the boundary slot before it grows.
C31_Witness ==
  /\ table # NULL
  /\ \E k \in Keys : find(Map, k) = check
  /\ \E k \in Keys :
       /\ get(Map, k) = None
       /\ Placed(Map, k, ValueOf(k))[2] = check

\* C32: without allocation failure the slot array is a function of
\* the stored entries, the seeds, the shift and the tail size: whatever the
\* operations were, it is the array that holds the caller's key -> value
\* map with the nonzero fingerprints strictly decreasing by address over the
\* whole array and each at max(its home, the slot after the previous larger
\* fingerprint).
C32_LayoutIsCanonical ==
  /\ table = NULL => RefKeys = {}
  /\ table # NULL =>
       /\ slots = Canonical(Map,
                            {<<hash(seeds, k), ref[k]>> : k \in RefKeys},
                            0, alloc_zeroed(Len(slots)))
       /\ \A i, j \in Occupied(slots) :
            i < j => slots[i].hash > slots[j].hash

\* A remove has shifted a displaced pair back in a grown table that still
\* holds a displaced pair: the array is the one the inserts of the remaining
\* keys alone build.
C32_Witness ==
  /\ last.op = "remove"
  /\ last.ret # None
  /\ shift < INITIAL_S
  /\ len(Map) >= 4
  /\ \E i \in Occupied(slots) : Home(Map, slots[i].hash) < i
  /\ \E k \in Keys :
       /\ get(Map, k) = None
       /\ LET r == insert(Map, k, ValueOf(k), TRUE)
          IN  /\ ~r.grew
              /\ remove(r.m, k).m.slots = slots
              /\ \E i \in Occupied(slots) : r.m.slots[i] # slots[i]

\* C33: HashSetNZ64::insert(k) returns true iff k was in the set before
\* the call, false when k is newly added, and k is in the set afterwards
\* either way; HashSetNZ64::remove(k) returns true iff k was in the set;
\* contains and len agree with the underlying map of unit values.
C33_SetOverUnitMap ==
  /\ ~ub
  /\ HashSetNZ64_len(Map) = Cardinality(RefKeys)
  /\ HashSetNZ64_is_empty(Map) <=> RefKeys = {}
  /\ last.op \in {"set_insert", "set_remove"} => last.ret = last.exp
  /\ \A k \in Keys :
       LET was == ref[k] # None
           i   == HashSetNZ64_insert(Map, k, TRUE)
           r   == HashSetNZ64_remove(Map, k)
       IN  /\ HashSetNZ64_contains(Map, k) = was
           /\ HashSetNZ64_contains(Map, k) = contains_key(Map, k)
           /\ get(Map, k) = (IF was THEN Unit ELSE None)
           /\ i.ret = was
           /\ HashSetNZ64_contains(i.m, k) = TRUE
           /\ HashSetNZ64_len(i.m) = len(Map) + (IF was THEN 0 ELSE 1)
           /\ i.m = insert(Map, k, Unit, TRUE).m
           /\ r.ret = was
           /\ HashSetNZ64_contains(r.m, k) = FALSE
           /\ HashSetNZ64_len(r.m) = len(Map) - (IF was THEN 1 ELSE 0)
           /\ r.m = remove(Map, k).m

\* An insert of a key the set already held has returned true, in a set
\* that also lacks a key.
C33_Witness ==
  /\ last.op = "set_insert"
  /\ last.ret = TRUE
  /\ HashSetNZ64_len(Map) >= 3
  /\ \E k \in Keys : ~HashSetNZ64_insert(Map, k, TRUE).ret

====
